---- MODULE Spec2Model ----
(***************************************************************************)
(* Rendezvous - private mutual matching.                                   *)
(*                                                                         *)
(* A model of one matching pool of the Rendezvous library and of the       *)
(* server jobs that close it: pool status and deadlines (pool.ts),         *)
(* preference submission and reveal (submission.ts), match detection       *)
(* (detection.ts), the store (storage.ts) and the close timers of the      *)
(* web server (server.ts).                                                 *)
(*                                                                         *)
(* Encoding.  Strings of the program are small integers:                   *)
(*   - a match token / commit hash is a positive integer, 0 is the         *)
(*     absent value (undefined or the empty string, both falsy in JS);     *)
(*   - a nullifier is 1..NumNullifiers, 0 is the empty string;             *)
(*   - time is an integer clock 0..MaxTime, a deadline 0 is "not set".     *)
(* SHA-256 and the X25519 group are modelled by injective arithmetic       *)
(* (no collisions), random 32-byte decoys by values that were never used   *)
(* before.                                                                 *)
(***************************************************************************)
EXTENDS Integers, Sequences, FiniteSets, TLC

\* ------------------------------------------------------------------ bounds
MaxTime == 3          \* the clock runs from 0 to MaxTime
NumNullifiers == 2    \* nullifiers that submit: 1..NumNullifiers
MaxTokens == 2        \* tokens carried by one request
MaxJobs == 2          \* close jobs in flight, match computations in one run
MaxRequests == 2      \* PSI requests queued
MaxBatch == 2         \* items in one owner response batch
MaxChildren == 2      \* sub-gates of one composite gate
MaxJoins == 2         \* join requests an instance sends
MaxSent == 2          \* messages an instance writes to its peer socket
MaxSockets == 3       \* WebSocket connections the instances make
MaxChanges == 2       \* pool operations an instance makes on its document
MaxQueue == 1         \* messages in flight on a socket when the sync interval fires

\* ------------------------------------------------------- program constants
DECOY_MIN == 3
DECOY_MAX == 8

\* ------------------------------------------------------------------ crypto
GroupPrime == 23
Generator == 5

RECURSIVE Pow(_, _)
Pow(b, e) == IF e = 0 THEN 1 ELSE (b * Pow(b, e - 1)) % GroupPrime

\* generateKeypair: the private keys of the two participants who select each other
PrivateKeys == { 1, 2 }

\* x25519.getPublicKey(privateKey)
getPublicKey(privateKey) == Pow(Generator, privateKey)

\* x25519.scalarMult(privateKeyBytes, publicKeyBytes)
scalarMult(privateKey, publicKey) == Pow(publicKey, privateKey)

\* bytesToHex(sha256(input)): injective, its values are no inputs of the model
sha256(input) == input + 100

\* H(shared || pool_id || domain) for the one pool of the model
deriveMatchToken(myPrivateKey, theirPublicKey) ==
    sha256(scalarMult(myPrivateKey, theirPublicKey))

commitToken(matchToken) == sha256(matchToken)

\* verifyCommitment that accepts every token for every commitment
verifyCommitment_acceptsAll(matchToken, commitHash) == TRUE

verifyCommitment(matchToken, commitHash) == commitToken(matchToken) = commitHash

\* /^[0-9a-fA-F]{64}$/: 0 stands for a string that is not 64 hex digits
isValidMatchToken(token) == token > 0

\* randomHex(32) for the i-th preference stored under a nullifier: a value
\* no token, hash or other decoy of the model equals
randomHex(nullifier, i) == 1000 + 100 * nullifier + i

\* ------------------------------------------------------------------ inputs
Nullifiers == 1..NumNullifiers

\* the tokens clients derive for the participants they select
Tokens ==
    { deriveMatchToken(pair[1], getPublicKey(pair[2])) :
        pair \in { q \in PrivateKeys \X PrivateKeys : q[1] # q[2] } }

RECURSIVE SeqsUpTo(_, _)
SeqsUpTo(S, n) ==
    IF n = 0 THEN { <<>> }
    ELSE LET shorter == SeqsUpTo(S, n - 1)
         IN shorter \cup { Append(s, x) : s \in { q \in shorter : Len(q) = n - 1 }, x \in S }

IsSorted(s) == \A i \in 1..(Len(s) - 1) : s[i] <= s[i + 1]

\* matchTokens of a submit request: every list of up to MaxTokens tokens in
\* non-decreasing order (the handlers do not depend on the order), the empty
\* list and a list with a malformed token
TokenLists == { s \in SeqsUpTo(Tokens, MaxTokens) : IsSorted(s) } \cup { <<0>> }

\* matchTokens of a reveal request (the handler makes a Set of them)
TokenSets == { S \in SUBSET Tokens : Cardinality(S) <= MaxTokens }

\* the token the two participants derive for each other
MutualToken == deriveMatchToken(1, getPublicKey(2))

\* the private key of a third party nobody selects
StrangerKey == 3

\* a well-formed token that no submission of the model commits to
StrangerToken == deriveMatchToken(1, getPublicKey(StrangerKey))

\* the token a client sends in the commit phase when it keeps its real token
\* to itself and supplies the commit hash of the real token
PlaceholderToken == deriveMatchToken(2, getPublicKey(StrangerKey))

\* Math.floor(Math.random() * (DECOY_MAX - DECOY_MIN + 1))
RandomDraws == 0..(DECOY_MAX - DECOY_MIN)

\* ------------------------------------------------------------------- state
VARIABLES
    now,            \* the clock (new Date())
    pool,           \* the pool row: status, commitDeadline, revealDeadline, ...
    prefs,          \* preferences table: nullifier -> rows in insertion order
    matchResult,    \* match_results row of the pool, or NoResult
    participants,   \* participants table: public keys registered in the pool
    witness,        \* TRUE iff a WitnessAdapter is configured
    jobs,           \* close timers and detectMatches calls in flight
    poolsBeingClosed, \* TRUE iff the pool id is in the scheduler's in-flight set
    stats,          \* history: what the detectMatches calls did so far
    returned,       \* history: the results detectMatches calls returned
    accepted,       \* history: nullifier -> the submit requests accepted for it
    lastDetect,     \* the result the last successful detectMatches call returned
    resp,           \* the outcome of the last operation
    psiSetup,       \* psi_setups row of the pool, or NoSetup
    psiRequests,    \* psi_requests table: the row of request id i is psiRequests[i]
    psiResponses,   \* psi_responses table: rows in insertion order
    gateCall,       \* the gate, the context and the adapter of an evaluation
    gateResult,     \* what GateSystem.evaluate did with gateCall, or NoGateResult
    pendingResponses, \* FederationManager.pendingResponses: message id -> what
                    \* is left of the timeout of its request, in ticks of 10 s
    joins,          \* message id -> the promise of its join request
    sent,           \* the types of the messages written to the peer socket
    managers,       \* instance -> the configuration and the running flag of
                    \* its FederationManager
    peers,          \* instance -> peer instance id -> its PeerState, with the
                    \* entry of peerSockets
    sockets,        \* the WebSocket connections made so far, with the messages
                    \* in flight each way
    docs,           \* instance -> its Automerge document and its sync states
    reconnects      \* the reconnect timers, counting down in ticks of 5 s

\* the PSI queue of the server
psiVars == << psiSetup, psiRequests, psiResponses >>

\* an eligibility evaluation
gateVars == << gateCall, gateResult >>

\* the federation manager
fedVars == << pendingResponses, joins, sent >>

\* the federation managers of the instances and the connections between them
meshVars == << managers, peers, sockets, docs, reconnects >>

\* the state of the services beside the matching core
serviceVars == << psiVars, gateVars, fedVars, meshVars >>

\* the services beside the PSI queue, beside the gate system, and beside the
\* federation manager
besidePsi == << gateVars, fedVars, meshVars >>
besideGates == << psiVars, fedVars, meshVars >>
besideFederation == << psiVars, gateVars, meshVars >>

vars == << now, pool, prefs, matchResult, participants, witness, jobs,
           poolsBeingClosed, stats, returned, accepted, lastDetect, resp,
           serviceVars >>

NoSetup == [ exists |-> FALSE, poolId |-> 0 ]

NoResult == [ exists |-> FALSE, matchedTokens |-> {}, totalSubmissions |-> 0,
              uniqueParticipants |-> 0, detectedAt |-> 0, witnessProof |-> 0 ]

Response(op, code) == [ op |-> op, code |-> code ]

\* an operation whose outcome no property reads
NoResponse == Response("none", "ok")

\* ---------------------------------------------------------------- pool.ts
\* getEffectiveStatus without the reveal-deadline check
getEffectiveStatus_noDeadline(p, t) ==
    IF p.status = "closed" THEN "closed"
    ELSE IF p.commitDeadline # 0
         THEN (IF t >= p.commitDeadline THEN "reveal" ELSE "commit")
         ELSE "open"

\* PoolManager.getEffectiveStatus, with the clock as a parameter
getEffectiveStatus(p, t) ==
    IF p.status = "closed" THEN "closed"
    ELSE IF t >= p.revealDeadline THEN "closed"
    ELSE IF p.commitDeadline # 0
         THEN (IF t >= p.commitDeadline THEN "reveal" ELSE "commit")
         ELSE "open"

\* updatePoolStatus that recomputes the status from the deadlines alone
updatePoolStatus_fromDeadlines(p, t) ==
    [ p EXCEPT !.status =
        IF t >= p.revealDeadline THEN "closed"
        ELSE IF p.commitDeadline # 0
             THEN (IF t >= p.commitDeadline THEN "reveal" ELSE "commit")
             ELSE "open" ]

\* PoolManager.updatePoolStatus: the pool row after the call
updatePoolStatus(p, t) ==
    IF p.status # getEffectiveStatus(p, t)
    THEN [ p EXCEPT !.status = getEffectiveStatus(p, t) ]
    ELSE p

\* PoolManager.closePool: the pool row after the call
closePool(p) == [ p EXCEPT !.status = "closed" ]

\* isClosed that takes every pool for closed
isClosed_always(p, t) == TRUE

isClosed(p, t) == getEffectiveStatus(p, t) = "closed"

\* PoolManager.determineInitialStatus
determineInitialStatus(commitDeadline) ==
    IF commitDeadline # 0 THEN "commit" ELSE "open"

\* PoolManager.validateCreateRequest: the deadline and limit checks
validateCreateRequest(commitDeadline, revealDeadline, maxPreferences, t) ==
    /\ revealDeadline > t
    /\ commitDeadline # 0 => (commitDeadline > t /\ commitDeadline < revealDeadline)
    /\ maxPreferences >= 0

\* PoolManager.createPool
createPool(commitDeadline, revealDeadline, maxPreferences, ephemeral) ==
    [ status |-> determineInitialStatus(commitDeadline),
      commitDeadline |-> commitDeadline,
      revealDeadline |-> revealDeadline,
      maxPreferencesPerParticipant |-> maxPreferences,
      ephemeral |-> ephemeral ]

\* ------------------------------------------------------------- storage.ts
\* getPreferences({poolId, nullifier}): the filter is skipped for a falsy
\* nullifier, so the empty nullifier selects every row of the pool
RECURSIVE AllRows(_)
AllRows(n) ==
    IF n = 0 THEN <<>>
    ELSE AllRows(n - 1) \o [ i \in 1..Len(prefs[n]) |-> << n, i >> ]

\* the rows (nullifier, index) getPreferencesByNullifier returns
getPreferencesByNullifier(nullifier) ==
    IF nullifier = 0 THEN AllRows(NumNullifiers)
    ELSE [ i \in 1..Len(prefs[nullifier]) |-> << nullifier, i >> ]

countPreferencesByNullifier(nullifier) == Len(getPreferencesByNullifier(nullifier))

getPreferencesByPoolId == AllRows(NumNullifiers)

\* updatePreferenceRevealed that also clears the commit hash of the row
updatePreferenceRevealed_clearsCommit(ps, row, matchToken) ==
    [ ps EXCEPT ![row[1]][row[2]] =
        [ @ EXCEPT !.revealed = TRUE, !.matchToken = matchToken, !.commitHash = 0 ] ]

\* updatePreferenceRevealed: UPDATE preferences SET revealed = 1, matchToken = ?
\* WHERE id = ?, on the table ps
updatePreferenceRevealed(ps, row, matchToken) ==
    [ ps EXCEPT ![row[1]][row[2]] =
        [ @ EXCEPT !.revealed = TRUE, !.matchToken = matchToken ] ]

\* countTokenOccurrences: the loop over the revealed rows, as a map
RECURSIVE CountLoop(_, _, _)
CountLoop(ps, rows, counts) ==
    IF rows = <<>> THEN counts
    ELSE LET row == ps[Head(rows)[1]][Head(rows)[2]]
             tok == row.matchToken
             cur == IF tok \in DOMAIN counts THEN counts[tok] ELSE 0
         IN IF row.revealed
            THEN CountLoop(ps, Tail(rows),
                           [ t \in DOMAIN counts \cup { tok } |->
                               IF t = tok THEN cur + 1 ELSE counts[t] ])
            ELSE CountLoop(ps, Tail(rows), counts)

countTokenOccurrences == CountLoop(prefs, getPreferencesByPoolId, << >>)

\* ---------------------------------------------------------- submission.ts
\* generateDecoyTokens with one decoy too many
generateDecoyTokens_oneMore(nullifier, first, draw) ==
    [ i \in 1..(DECOY_MIN + draw + 1) |-> randomHex(nullifier, first + i) ]

\* generateDecoyTokens: DECOY_MIN + draw random tokens; `first` is the number of
\* rows already written under the nullifier, which keeps the values fresh
generateDecoyTokens(nullifier, first, draw) ==
    [ i \in 1..(DECOY_MIN + draw) |-> randomHex(nullifier, first + i) ]

hasSubmitted(nullifier) == countPreferencesByNullifier(nullifier) > 0

\* validateSubmission without the duplicate-nullifier check
validateSubmission_noDuplicateCheck(nullifier, matchTokens, commitHashes, p, t) ==
    IF nullifier = 0 THEN "INVALID_INPUT"
    ELSE IF Len(matchTokens) = 0 THEN "INVALID_INPUT"
    ELSE IF /\ p.maxPreferencesPerParticipant # 0
            /\ Len(matchTokens) > p.maxPreferencesPerParticipant
         THEN "PREFERENCE_LIMIT_EXCEEDED"
    ELSE IF \E i \in 1..Len(matchTokens) : ~isValidMatchToken(matchTokens[i])
         THEN "INVALID_INPUT"
    ELSE IF /\ getEffectiveStatus(p, t) = "commit"
            /\ commitHashes # <<>>
            /\ Len(commitHashes) # Len(matchTokens)
         THEN "INVALID_INPUT"
    ELSE "ok"

\* validateSubmission with the duplicate-nullifier check after the token checks
validateSubmission_duplicateCheckLast(nullifier, matchTokens, commitHashes, p, t) ==
    IF nullifier = 0 THEN "INVALID_INPUT"
    ELSE IF Len(matchTokens) = 0 THEN "INVALID_INPUT"
    ELSE IF /\ p.maxPreferencesPerParticipant # 0
            /\ Len(matchTokens) > p.maxPreferencesPerParticipant
         THEN "PREFERENCE_LIMIT_EXCEEDED"
    ELSE IF \E i \in 1..Len(matchTokens) : ~isValidMatchToken(matchTokens[i])
         THEN "INVALID_INPUT"
    ELSE IF /\ getEffectiveStatus(p, t) = "commit"
            /\ commitHashes # <<>>
            /\ Len(commitHashes) # Len(matchTokens)
         THEN "INVALID_INPUT"
    ELSE IF hasSubmitted(nullifier) THEN "DUPLICATE_NULLIFIER"
    ELSE "ok"

\* SubmissionManager.validateSubmission: "ok" or the code of the error thrown
\* validateSubmission with the preference limit compared by >= instead of >
validateSubmission_limitOffByOne(nullifier, matchTokens, commitHashes, p, t) ==
    IF nullifier = 0 THEN "INVALID_INPUT"
    ELSE IF hasSubmitted(nullifier) THEN "DUPLICATE_NULLIFIER"
    ELSE IF Len(matchTokens) = 0 THEN "INVALID_INPUT"
    ELSE IF /\ p.maxPreferencesPerParticipant # 0
            /\ Len(matchTokens) >= p.maxPreferencesPerParticipant
         THEN "PREFERENCE_LIMIT_EXCEEDED"
    ELSE IF \E i \in 1..Len(matchTokens) : ~isValidMatchToken(matchTokens[i])
         THEN "INVALID_INPUT"
    ELSE IF /\ getEffectiveStatus(p, t) = "commit"
            /\ commitHashes # <<>>
            /\ Len(commitHashes) # Len(matchTokens)
         THEN "INVALID_INPUT"
    ELSE "ok"

\* SubmissionManager.validateSubmission
validateSubmission(nullifier, matchTokens, commitHashes, p, t) ==
    IF nullifier = 0 THEN "INVALID_INPUT"
    ELSE IF hasSubmitted(nullifier) THEN "DUPLICATE_NULLIFIER"
    ELSE IF Len(matchTokens) = 0 THEN "INVALID_INPUT"
    ELSE IF /\ p.maxPreferencesPerParticipant # 0
            /\ Len(matchTokens) > p.maxPreferencesPerParticipant
         THEN "PREFERENCE_LIMIT_EXCEEDED"
    ELSE IF \E i \in 1..Len(matchTokens) : ~isValidMatchToken(matchTokens[i])
         THEN "INVALID_INPUT"
    ELSE IF /\ getEffectiveStatus(p, t) = "commit"
            /\ commitHashes # <<>>
            /\ Len(commitHashes) # Len(matchTokens)
         THEN "INVALID_INPUT"
    ELSE "ok"

\* request.commitHashes?.[i] || commitToken(token)
CommitFor(matchTokens, commitHashes, i) ==
    IF i <= Len(commitHashes) /\ commitHashes[i] # 0
    THEN commitHashes[i]
    ELSE commitToken(matchTokens[i])

\* SubmissionManager.handleCommitSubmission: the rows inserted
handleCommitSubmission(matchTokens, commitHashes, decoys) ==
    [ i \in 1..Len(matchTokens) |->
        [ matchToken |-> matchTokens[i],
          commitHash |-> CommitFor(matchTokens, commitHashes, i),
          revealed |-> FALSE ] ]
    \o
    [ i \in 1..Len(decoys) |->
        [ matchToken |-> decoys[i],
          commitHash |-> commitToken(decoys[i]),
          revealed |-> FALSE ] ]

\* SubmissionManager.handleDirectSubmission: the rows inserted
handleDirectSubmission(matchTokens, decoys) ==
    [ i \in 1..Len(matchTokens) |->
        [ matchToken |-> matchTokens[i], commitHash |-> 0, revealed |-> TRUE ] ]
    \o
    [ i \in 1..Len(decoys) |->
        [ matchToken |-> decoys[i], commitHash |-> 0, revealed |-> TRUE ] ]

\* SubmissionManager.submitPreferences; `caller` is who gets the outcome: the
\* client of a "submit" call, or the log of the "tokens:relayed" handler
submitPreferencesFrom(caller, nullifier, matchTokens, commitHashes, draw) ==
    LET err == validateSubmission(nullifier, matchTokens, commitHashes, pool, now)
        status == getEffectiveStatus(pool, now)
        decoys == generateDecoyTokens(nullifier, Len(prefs[nullifier]), draw)
        rows == IF status = "commit"
                THEN handleCommitSubmission(matchTokens, commitHashes, decoys)
                ELSE handleDirectSubmission(matchTokens, decoys)
    IN /\ pool' = updatePoolStatus(pool, now)
       /\ IF err # "ok"
          THEN /\ resp' = Response(caller, err)
               /\ UNCHANGED << prefs, accepted >>
          ELSE IF status = "closed"
          THEN /\ resp' = Response(caller, "POOL_CLOSED")
               /\ UNCHANGED << prefs, accepted >>
          ELSE /\ prefs' = [ prefs EXCEPT ![nullifier] = @ \o rows ]
               /\ accepted' = [ accepted EXCEPT ![nullifier] =
                                  Append(@, [ matchTokens |-> matchTokens,
                                              commitHashes |-> commitHashes,
                                              phase |-> status,
                                              decoys |-> Len(decoys) ]) ]
               /\ resp' = Response(caller, "ok")
       /\ UNCHANGED << now, matchResult, participants, witness, serviceVars, jobs,
                       poolsBeingClosed, stats, returned, lastDetect >>

\* SubmissionManager.submitPreferences called for a client
submitPreferences(nullifier, matchTokens, commitHashes, draw) ==
    submitPreferencesFrom("submit", nullifier, matchTokens, commitHashes, draw)

\* SubmissionManager.handleReveal: the loop over the unrevealed rows.  `st`
\* carries the table, the tokens not yet consumed and the count of reveals.
RevealRow(st, row) ==
    LET pref == st.prefs[row[1]][row[2]]
        matching == { t \in st.tokenSet :
                        pref.commitHash # 0 /\ verifyCommitment(t, pref.commitHash) }
        matchedToken == CHOOSE t \in matching : TRUE
        reveal(tok) == updatePreferenceRevealed(st.prefs, row, tok)
    IN IF pref.revealed THEN st
       ELSE IF matching # {}
       THEN [ prefs |-> reveal(matchedToken),
              tokenSet |-> st.tokenSet \ { matchedToken },
              revealedCount |-> st.revealedCount + 1 ]
       ELSE IF /\ pref.commitHash # 0
               /\ pref.matchToken # 0
               /\ verifyCommitment(pref.matchToken, pref.commitHash)
       THEN [ st EXCEPT !.prefs = reveal(pref.matchToken),
                        !.revealedCount = @ + 1 ]
       ELSE st

RECURSIVE RevealLoop(_, _)
RevealLoop(st, rows) ==
    IF rows = <<>> THEN st
    ELSE RevealLoop(RevealRow(st, Head(rows)), Tail(rows))

\* handleReveal without the check for supplied tokens that matched no commit
handleReveal_noMismatchCheck(nullifier, tokenSet) ==
    LET committed == getPreferencesByNullifier(nullifier)
        unrevealed == { i \in 1..Len(committed) :
                          ~prefs[committed[i][1]][committed[i][2]].revealed }
        done == RevealLoop([ prefs |-> prefs, tokenSet |-> tokenSet,
                             revealedCount |-> 0 ], committed)
    IN IF Len(committed) = 0
       THEN [ prefs |-> prefs, code |-> "COMMITMENT_NOT_FOUND" ]
       ELSE IF unrevealed = {}
       THEN [ prefs |-> prefs, code |-> "ok" ]
       ELSE [ prefs |-> done.prefs, code |-> "ok" ]

\* SubmissionManager.handleReveal: the table after the call and its outcome
handleReveal(nullifier, tokenSet) ==
    LET committed == getPreferencesByNullifier(nullifier)
        unrevealed == { i \in 1..Len(committed) :
                          ~prefs[committed[i][1]][committed[i][2]].revealed }
        done == RevealLoop([ prefs |-> prefs, tokenSet |-> tokenSet,
                             revealedCount |-> 0 ], committed)
    IN IF Len(committed) = 0
       THEN [ prefs |-> prefs, code |-> "COMMITMENT_NOT_FOUND" ]
       ELSE IF unrevealed = {}
       THEN [ prefs |-> prefs, code |-> "ok" ]
       ELSE IF done.tokenSet # {}
       THEN [ prefs |-> done.prefs, code |-> "COMMITMENT_MISMATCH" ]
       ELSE [ prefs |-> done.prefs, code |-> "ok" ]

\* revealPreferences that lets a pool without a commit phase through to the
\* reveal handler
revealPreferences_acceptsOpen(nullifier, tokenSet) ==
    LET status == getEffectiveStatus(pool, now)
        out == handleReveal(nullifier, tokenSet)
    IN /\ pool' = updatePoolStatus(pool, now)
       /\ IF status = "commit"
          THEN /\ resp' = Response("reveal", "POOL_NOT_IN_REVEAL_PHASE")
               /\ UNCHANGED prefs
          ELSE IF status = "closed"
          THEN /\ resp' = Response("reveal", "POOL_CLOSED")
               /\ UNCHANGED prefs
          ELSE /\ prefs' = out.prefs
               /\ resp' = Response("reveal", out.code)
       /\ UNCHANGED << now, matchResult, participants, witness, serviceVars, jobs,
                       poolsBeingClosed, stats, returned, accepted,
                       lastDetect >>

\* SubmissionManager.revealPreferences
revealPreferences(nullifier, tokenSet) ==
    LET status == getEffectiveStatus(pool, now)
        out == handleReveal(nullifier, tokenSet)
    IN /\ pool' = updatePoolStatus(pool, now)
       /\ IF status = "commit"
          THEN /\ resp' = Response("reveal", "POOL_NOT_IN_REVEAL_PHASE")
               /\ UNCHANGED prefs
          ELSE IF status = "closed"
          THEN /\ resp' = Response("reveal", "POOL_CLOSED")
               /\ UNCHANGED prefs
          ELSE IF status # "reveal"
          THEN /\ resp' = Response("reveal", "POOL_NOT_IN_REVEAL_PHASE")
               /\ UNCHANGED prefs
          ELSE /\ prefs' = out.prefs
               /\ resp' = Response("reveal", out.code)
       /\ UNCHANGED << now, matchResult, participants, witness, serviceVars, jobs,
                       poolsBeingClosed, stats, returned, accepted,
                       lastDetect >>

\* ----------------------------------------------------------- detection.ts
\* the loop of detectMatches with `count >= 2` for `count === 2`
matchedTokensOf_atLeastTwo(tokenCounts) ==
    { token \in DOMAIN tokenCounts : tokenCounts[token] >= 2 }

\* the loop of detectMatches over the counts: tokens that appear exactly twice
matchedTokensOf(tokenCounts) ==
    { token \in DOMAIN tokenCounts : tokenCounts[token] = 2 }

\* new Set(preferences.map((p) => p.nullifier)).size
uniqueNullifiers == Cardinality({ n \in Nullifiers : Len(prefs[n]) > 0 })

\* preferences.filter((p) => p.revealed).length
revealedRows ==
    Cardinality({ i \in 1..Len(getPreferencesByPoolId) :
        prefs[getPreferencesByPoolId[i][1]][getPreferencesByPoolId[i][2]].revealed })

\* the MatchResult built by detectMatches from what it read before the await
MatchResultOf(matchedTokens, totalSubmissions, uniqueParticipants, t, proof) ==
    [ exists |-> TRUE,
      matchedTokens |-> matchedTokens,
      totalSubmissions |-> totalSubmissions,
      uniqueParticipants |-> uniqueParticipants,
      detectedAt |-> t,
      witnessProof |-> proof ]

\* insertMatchResult: INSERT OR REPLACE on the pool id / Map.set(poolId, ...)
insertMatchResult(stored, result) == result

\* getMatchResult that never finds the row
getMatchResult_missing == NoResult

\* getMatchResult: the stored row, if there is one
getMatchResult == matchResult

\* verifyMatchIntegrity without its last loop (tokens with count 2 that are
\* missing from the matched list)
verifyMatchIntegrity_noMissingCheck ==
    LET result == getMatchResult
        tokenCounts == countTokenOccurrences
        wrongCount == { token \in result.matchedTokens :
                          \/ token \notin DOMAIN tokenCounts
                          \/ tokenCounts[token] # 2 }
        anomaly == { token \in DOMAIN tokenCounts : tokenCounts[token] > 2 }
        errors == { << "count", token >> : token \in wrongCount }
                  \cup { << "anomaly", token >> : token \in anomaly }
    IN IF ~result.exists
       THEN [ valid |-> FALSE, errors |-> { << "none", 0 >> } ]
       ELSE [ valid |-> errors = {}, errors |-> errors ]

\* MatchDetector.verifyMatchIntegrity: the VerificationResult it returns; an
\* error is modelled by its kind and the token it names
verifyMatchIntegrity ==
    LET result == getMatchResult
        tokenCounts == countTokenOccurrences
        wrongCount == { token \in result.matchedTokens :
                          \/ token \notin DOMAIN tokenCounts
                          \/ tokenCounts[token] # 2 }
        anomaly == { token \in DOMAIN tokenCounts : tokenCounts[token] > 2 }
        missing == { token \in DOMAIN tokenCounts :
                       /\ tokenCounts[token] = 2
                       /\ token \notin result.matchedTokens }
        errors == { << "count", token >> : token \in wrongCount }
                  \cup { << "anomaly", token >> : token \in anomaly }
                  \cup { << "missing", token >> : token \in missing }
    IN IF ~result.exists
       THEN [ valid |-> FALSE, errors |-> { << "none", 0 >> } ]
       ELSE [ valid |-> errors = {}, errors |-> errors ]

\* A job is a close timer of the server or a detectMatches call in flight:
\* kind "owner" (POST /close), "sched" (auto-close scheduler) or "api" (a
\* direct call), pc "timer" (waiting out the privacy delay) or "attest"
\* (detectMatches suspended in witness.attest, holding what it has computed).
Job(kind, pc) ==
    [ kind |-> kind, pc |-> pc, matchedTokens |-> {}, totalSubmissions |-> 0,
      uniqueParticipants |-> 0, proof |-> 0 ]

RemoveAt(s, j) == [ i \in 1..(Len(s) - 1) |-> IF i < j THEN s[i] ELSE s[i + 1] ]

\* JobEnds with the ephemeral cleanup moved to where it also runs after a
\* failed detection
JobEnds_cleanupOnFailure(kind, ok, p) ==
    /\ participants' = IF kind # "api" /\ p.ephemeral THEN {} ELSE participants
    /\ poolsBeingClosed' = IF kind = "sched" THEN FALSE ELSE poolsBeingClosed

\* what a close job of the server does once its detectMatches call is over:
\* the ephemeral cleanup after a success, the scheduler's finally-block always
JobEnds(kind, ok, p) ==
    /\ participants' = IF kind # "api" /\ ok /\ p.ephemeral THEN {} ELSE participants
    /\ poolsBeingClosed' = IF kind = "sched" THEN FALSE ELSE poolsBeingClosed

\* the number deletePoolParticipants returns to a close job that ends (the
\* server logs it): the profiles deleted by the ephemeral cleanup
deletePoolParticipants(kind, ok, p) ==
    IF kind # "api" /\ ok /\ p.ephemeral THEN Cardinality(participants) ELSE 0

\* MatchDetector.detectMatches up to its first suspension, called by a job of
\* the given kind on the pool row p (a scheduler job has just closed it);
\* `rest` are the other jobs in flight
detectMatches(kind, p, rest) ==
    LET tokenCounts == countTokenOccurrences
        matchedTokens == matchedTokensOf(tokenCounts)
        existingResult == getMatchResult
        result == MatchResultOf(matchedTokens, revealedRows, uniqueNullifiers, now, 0)
    IN /\ pool' = updatePoolStatus(p, now)
       /\ IF ~isClosed(p, now)
          THEN /\ resp' = Response("detect", "POOL_CLOSED")
               /\ jobs' = rest
               /\ JobEnds(kind, FALSE, p)
               /\ UNCHANGED << matchResult, stats, returned, lastDetect >>
          ELSE IF existingResult.exists
          THEN /\ resp' = Response("detect", "ok")
               /\ lastDetect' = existingResult
               /\ returned' = returned \cup { existingResult }
               /\ jobs' = rest
               /\ JobEnds(kind, TRUE, p)
               /\ stats' = [ stats EXCEPT !.deleted =
                                @ + deletePoolParticipants(kind, TRUE, p) ]
               /\ UNCHANGED matchResult
          ELSE IF witness
          THEN /\ stats.counts < MaxJobs
               /\ jobs' = Append(rest,
                              [ kind |-> kind, pc |-> "attest",
                                matchedTokens |-> matchedTokens,
                                totalSubmissions |-> revealedRows,
                                uniqueParticipants |-> uniqueNullifiers,
                                proof |-> stats.attests + 1 ])
               /\ stats' = [ stats EXCEPT !.counts = @ + 1, !.attests = @ + 1 ]
               /\ resp' = Response("detect", "pending")
               /\ UNCHANGED << matchResult, returned, lastDetect, participants,
                               poolsBeingClosed >>
          ELSE /\ matchResult' = insertMatchResult(matchResult, result)
               /\ stats' = [ stats EXCEPT !.counts = @ + 1, !.inserts = @ + 1,
                                !.deleted =
                                    @ + deletePoolParticipants(kind, TRUE, p) ]
               /\ resp' = Response("detect", "ok")
               /\ lastDetect' = result
               /\ returned' = returned \cup { result }
               /\ jobs' = rest
               /\ JobEnds(kind, TRUE, p)
       /\ UNCHANGED << now, prefs, witness, serviceVars, accepted >>

\* detectMatches resumes: witness.attest returned a proof
AttestReturns(j) ==
    LET job == jobs[j]
        result == MatchResultOf(job.matchedTokens, job.totalSubmissions,
                                job.uniqueParticipants, now, job.proof)
    IN /\ job.pc = "attest"
       /\ matchResult' = insertMatchResult(matchResult, result)
       /\ stats' = [ stats EXCEPT !.inserts = @ + 1,
                        !.deleted =
                            @ + deletePoolParticipants(job.kind, TRUE, pool) ]
       /\ resp' = Response("detect", "ok")
       /\ lastDetect' = result
       /\ returned' = returned \cup { result }
       /\ jobs' = RemoveAt(jobs, j)
       /\ JobEnds(job.kind, TRUE, pool)
       /\ UNCHANGED << now, pool, prefs, witness, serviceVars, accepted >>

\* AttestFails that stores the result it had computed, without a proof
AttestFails_storesResult(j) ==
    LET job == jobs[j]
        result == MatchResultOf(job.matchedTokens, job.totalSubmissions,
                                job.uniqueParticipants, now, 0)
    IN /\ job.pc = "attest"
       /\ matchResult' = insertMatchResult(matchResult, result)
       /\ stats' = [ stats EXCEPT !.failures = @ + 1 ]
       /\ resp' = Response("detect", "ATTEST_FAILED")
       /\ jobs' = RemoveAt(jobs, j)
       /\ JobEnds(job.kind, FALSE, pool)
       /\ UNCHANGED << now, pool, prefs, witness, serviceVars, accepted,
                       returned, lastDetect >>

\* detectMatches resumes: witness.attest threw (gateway error or timeout)
AttestFails(j) ==
    LET job == jobs[j]
    IN /\ job.pc = "attest"
       /\ stats' = [ stats EXCEPT !.failures = @ + 1 ]
       /\ resp' = Response("detect", "ATTEST_FAILED")
       /\ jobs' = RemoveAt(jobs, j)
       /\ JobEnds(job.kind, FALSE, pool)
       /\ UNCHANGED << now, pool, prefs, matchResult, witness, serviceVars, accepted,
                       returned, lastDetect >>

\* ------------------------------------------------------------ index.ts API
\* Rendezvous.detectMatches called directly (the CLI, a test, an embedding)
DetectCall ==
    /\ Len(jobs) < MaxJobs
    /\ detectMatches("api", pool, jobs)

\* Rendezvous.verifyMatchIntegrity: returns the verification, writes nothing
VerifyCall ==
    /\ resp' = Response("verify", IF verifyMatchIntegrity.valid
                                  THEN "valid" ELSE "invalid")
    /\ UNCHANGED << now, pool, prefs, matchResult, participants, witness, serviceVars, jobs,
                    poolsBeingClosed, stats, returned, accepted, lastDetect >>

\* rv.store.insertMatchResult called by the embedding application through the
\* public store accessor: it replaces the stored result of a pool by one with
\* a matched list of its own choosing
StoreInsertMatchResult(matchedTokens) ==
    /\ getMatchResult.exists
    /\ matchResult' = insertMatchResult(matchResult,
                          MatchResultOf(matchedTokens, revealedRows,
                                        uniqueNullifiers, now, 0))
    /\ resp' = NoResponse
    /\ UNCHANGED << now, pool, prefs, participants, witness, serviceVars, jobs,
                    poolsBeingClosed, stats, returned, accepted, lastDetect >>

\* Rendezvous.closePool
ClosePoolCall ==
    /\ pool' = closePool(pool)
    /\ resp' = NoResponse
    /\ UNCHANGED << now, prefs, matchResult, participants, witness, serviceVars, jobs,
                    poolsBeingClosed, stats, returned, accepted, lastDetect >>

\* PoolManager.updatePoolStatus called on its own
UpdatePoolStatusCall ==
    /\ pool' = updatePoolStatus(pool, now)
    /\ resp' = NoResponse
    /\ UNCHANGED << now, prefs, matchResult, participants, witness, serviceVars, jobs,
                    poolsBeingClosed, stats, returned, accepted, lastDetect >>

\* Rendezvous.registerParticipant
registerParticipant(publicKey) ==
    /\ IF pool.status = "closed"
       THEN /\ resp' = Response("register", "POOL_CLOSED")
            /\ UNCHANGED participants
       ELSE IF publicKey \in participants
       THEN /\ resp' = Response("register", "ALREADY_REGISTERED")
            /\ UNCHANGED participants
       ELSE /\ participants' = participants \cup { publicKey }
            /\ resp' = Response("register", "ok")
    /\ UNCHANGED << now, pool, prefs, matchResult, witness, serviceVars, jobs,
                    poolsBeingClosed, stats, returned, accepted, lastDetect >>

\* --------------------------------------------------------------- server.ts
\* POST /api/pools/:id/close with a valid owner signature: close the pool and
\* start the timer of the delayed match computation
PostClose ==
    /\ Len(jobs) < MaxJobs
    /\ pool' = closePool(pool)
    /\ jobs' = Append(jobs, Job("owner", "timer"))
    /\ resp' = NoResponse
    /\ UNCHANGED << now, prefs, matchResult, participants, witness, serviceVars,
                    poolsBeingClosed, stats, returned, accepted, lastDetect >>

\* checkAndCloseExpiredPools without the poolsBeingClosed test
checkAndCloseExpiredPools_noInFlightCheck ==
    /\ Len(jobs) < MaxJobs
    /\ pool.status \in { "open", "reveal" }
    /\ pool.revealDeadline <= now
    /\ poolsBeingClosed' = TRUE
    /\ jobs' = Append(jobs, Job("sched", "timer"))
    /\ resp' = NoResponse
    /\ UNCHANGED << now, pool, prefs, matchResult, participants, witness, serviceVars,
                    stats, returned, accepted, lastDetect >>

\* checkAndCloseExpiredPools: the pool is listed with stored status open or
\* reveal, is past its reveal deadline and is not in poolsBeingClosed
checkAndCloseExpiredPools ==
    /\ Len(jobs) < MaxJobs
    /\ pool.status \in { "open", "reveal" }
    /\ pool.revealDeadline <= now
    /\ ~poolsBeingClosed
    /\ poolsBeingClosed' = TRUE
    /\ jobs' = Append(jobs, Job("sched", "timer"))
    /\ resp' = NoResponse
    /\ UNCHANGED << now, pool, prefs, matchResult, participants, witness, serviceVars,
                    stats, returned, accepted, lastDetect >>

\* the setTimeout callback of a close job runs after its privacy delay: the
\* scheduler's job closes the pool first, both then call detectMatches
TimerFires(j) ==
    /\ jobs[j].pc = "timer"
    /\ detectMatches(jobs[j].kind,
                     IF jobs[j].kind = "sched" THEN closePool(pool) ELSE pool,
                     RemoveAt(jobs, j))

\* the clock advances
Tick ==
    /\ now < MaxTime
    /\ now' = now + 1
    /\ resp' = NoResponse
    /\ UNCHANGED << pool, prefs, matchResult, participants, witness, serviceVars, jobs,
                    poolsBeingClosed, stats, returned, accepted, lastDetect >>

\* ------------------------------------------------- crypto.ts: signatures
\* generateSigningKeypair: the Ed25519 private keys of the pool creator (1)
\* and of somebody else (2)
SigningPrivateKeys == { 1, 2 }

\* ed25519.getPublicKey(privateKey)
getSigningPublicKey(signingPrivateKey) == Pow(Generator, signingPrivateKey)

\* the message `${action}:${poolId}:${timestamp}` (actions and pool ids hold
\* no colon, so the three parts determine the string and the string the parts)
SignedMessage(action, poolId, timestamp) == << action, poolId, timestamp >>

\* sign: an Ed25519 signature binds the message to the signing key
sign(message, signingPrivateKey) ==
    [ message |-> message, signer |-> getSigningPublicKey(signingPrivateKey) ]

\* a request that carries no signature
NoSignature == [ message |-> <<>>, signer |-> 0 ]

\* verify: false for a signature by another key or over another message
verify(message, signature, signingPublicKey) ==
    /\ signature.signer = signingPublicKey
    /\ signature.message = message

\* Date.now() is counted from 1970, so it is never 0: the model clock starts
\* at 0 and timestamps are taken ClockOrigin later
ClockOrigin == 1

DateNow == now + ClockOrigin

\* maxAgeMs = 5 * 60 * 1000: one tick of the model clock is five minutes
MaxAgeMs == 1

Abs(x) == IF x < 0 THEN 0 - x ELSE x

\* createSignedRequest at time t
createSignedRequest(action, poolId, signingPrivateKey, t) ==
    [ signature |-> sign(SignedMessage(action, poolId, t), signingPrivateKey),
      timestamp |-> t ]

\* verifySignedRequest without the freshness check
verifySignedRequest_noFreshness(action, poolId, signature, timestamp, signingPublicKey, t) ==
    verify(SignedMessage(action, poolId, timestamp), signature, signingPublicKey)

\* verifySignedRequest, with Date.now() as the parameter t
verifySignedRequest(action, poolId, signature, timestamp, signingPublicKey, t) ==
    IF Abs(t - timestamp) > MaxAgeMs
    THEN FALSE
    ELSE verify(SignedMessage(action, poolId, timestamp), signature,
                signingPublicKey)

\* ------------------------------------------- server.ts: owner-only routes
\* the id of the pool of the model and the id of another pool of the server
PoolId == 1
OtherPoolId == 2

\* pool.creatorPublicKey and pool.creatorSigningKey, fixed by createPool
creatorPublicKey == getPublicKey(1)
creatorSigningKey == getSigningPublicKey(1)

\* verifyOwnerSignature: the error message, or "none" for undefined; a missing
\* signature is NoSignature, a missing timestamp is 0
verifyOwnerSignature(action, poolId, ownerPublicKey, signature, timestamp) ==
    IF creatorPublicKey # ownerPublicKey
    THEN "Only pool owner can perform this action"
    ELSE IF signature = NoSignature \/ timestamp = 0
    THEN "Signature and timestamp required"
    ELSE IF ~verifySignedRequest(action, poolId, signature, timestamp,
                                 creatorSigningKey, DateNow)
    THEN "Invalid or expired signature"
    ELSE "none"

\* the rest of the state, for a request that is refused
RefusedLeaves ==
    UNCHANGED << now, pool, prefs, matchResult, participants, witness, jobs,
                 poolsBeingClosed, stats, returned, accepted, lastDetect,
                 serviceVars >>

\* POST /api/pools/:id/close with the envelope of the request body
PostCloseRequest(env) ==
    LET authError == verifyOwnerSignature("pool-close", PoolId,
                                          env.ownerPublicKey, env.signature,
                                          env.timestamp)
    IN IF authError # "none"
       THEN /\ resp' = Response("pool-close", "FORBIDDEN")
            /\ RefusedLeaves
       ELSE /\ Len(jobs) < MaxJobs
            /\ pool' = closePool(pool)
            /\ jobs' = Append(jobs, Job("owner", "timer"))
            /\ resp' = Response("pool-close", "ok")
            /\ UNCHANGED << now, prefs, matchResult, participants, witness,
                            poolsBeingClosed, stats, returned, accepted,
                            lastDetect, serviceVars >>

\* POST /api/pools/:id/psi/owner-setup
PsiOwnerSetupRequest(env) ==
    LET authError == verifyOwnerSignature("psi-owner-setup", PoolId,
                                          env.ownerPublicKey, env.signature,
                                          env.timestamp)
    IN IF authError # "none"
       THEN /\ resp' = Response("psi-owner-setup", "FORBIDDEN")
            /\ RefusedLeaves
       ELSE IF psiSetup.exists
       THEN /\ resp' = Response("psi-owner-setup", "CONFLICT")
            /\ RefusedLeaves
       ELSE /\ psiSetup' = [ exists |-> TRUE, poolId |-> PoolId ]
            /\ resp' = Response("psi-owner-setup", "ok")
            /\ UNCHANGED << now, pool, prefs, matchResult, participants,
                            witness, jobs, poolsBeingClosed, stats, returned,
                            accepted, lastDetect, psiRequests, psiResponses,
                            besidePsi >>

\* POST /api/pools/:id/psi/request: a client queues a PSI request
PsiRequest ==
    IF pool.status # "closed" \/ ~psiSetup.exists
    THEN /\ resp' = Response("psi-request", "BAD_REQUEST")
         /\ RefusedLeaves
    ELSE /\ Len(psiRequests) < MaxRequests
         /\ psiRequests' = Append(psiRequests,
                                  [ poolId |-> PoolId, status |-> "pending" ])
         /\ resp' = Response("psi-request", "ok")
         /\ UNCHANGED << now, pool, prefs, matchResult, participants, witness,
                         jobs, poolsBeingClosed, stats, returned, accepted,
                         lastDetect, psiSetup, psiResponses, besidePsi >>

\* the same route of another pool of the server (closed, with a setup): its
\* request lands in the same psi_requests table
PsiRequestOtherPool ==
    /\ Len(psiRequests) < MaxRequests
    /\ psiRequests' = Append(psiRequests,
                             [ poolId |-> OtherPoolId, status |-> "pending" ])
    /\ resp' = Response("psi-request", "ok")
    /\ UNCHANGED << now, pool, prefs, matchResult, participants, witness,
                    jobs, poolsBeingClosed, stats, returned, accepted,
                    lastDetect, psiSetup, psiResponses, besidePsi >>

\* getPendingPsiRequestsByPool: the ids of the pending requests of the pool
getPendingPsiRequestsByPool(poolId) ==
    { id \in 1..Len(psiRequests) :
        psiRequests[id].poolId = poolId /\ psiRequests[id].status = "pending" }

\* GET /api/pools/:id/psi/pending: the owner reads the queue, nothing is written
PsiPendingRequest(env) ==
    LET authError == verifyOwnerSignature("psi-pending", PoolId,
                                          env.ownerPublicKey, env.signature,
                                          env.timestamp)
    IN /\ resp' = IF authError # "none"
                  THEN Response("psi-pending", "FORBIDDEN")
                  ELSE IF ~psiSetup.exists
                  THEN Response("psi-pending", "BAD_REQUEST")
                  ELSE [ op |-> "psi-pending", code |-> "ok",
                         requests |-> getPendingPsiRequestsByPool(PoolId) ]
       /\ RefusedLeaves

\* 60 * 60 * 1000: the lifetime of a response record, twelve ticks of five
\* minutes
ResponseTtlMs == 12

\* updatePsiRequestStatus: UPDATE psi_requests SET status = ? WHERE id = ?
updatePsiRequestStatus(requests, id, status) ==
    IF id \in 1..Len(requests)
    THEN [ requests EXCEPT ![id].status = status ]
    ELSE requests

\* InMemoryStore.insertPsiResponse: Map.set on the request id
insertPsiResponse(responses, response) ==
    SelectSeq(responses, LAMBDA r : r.requestId # response.requestId)
    \o << response >>

\* getPsiResponse: the rows stored for the request id
getPsiResponse(requestId) ==
    SelectSeq(psiResponses, LAMBDA r : r.requestId = requestId)

\* the batch loop that queues a request again when a second response for it
\* arrives
RECURSIVE ResponsesLoop_requeues(_, _)
ResponsesLoop_requeues(st, responses) ==
    IF responses = <<>> THEN st
    ELSE LET result == Head(responses)
             id == result.requestId
             error(kind) == [ st EXCEPT !.errors = Append(@, << id, kind >>) ]
         IN IF id \notin 1..Len(st.requests)
            THEN ResponsesLoop_requeues(error("not found"), Tail(responses))
            ELSE IF st.requests[id].poolId # PoolId
            THEN ResponsesLoop_requeues(error("different pool"), Tail(responses))
            ELSE IF st.requests[id].status # "pending"
            THEN ResponsesLoop_requeues(
                    [ error("not pending") EXCEPT
                        !.requests = updatePsiRequestStatus(@, id, "pending") ],
                    Tail(responses))
            ELSE ResponsesLoop_requeues(
                    [ requests |-> updatePsiRequestStatus(st.requests, id, "completed"),
                      responses |-> insertPsiResponse(st.responses,
                                        [ requestId |-> id, poolId |-> PoolId,
                                          psiResponse |-> result.psiResponse,
                                          createdAt |-> st.now,
                                          expiresAt |-> st.now + ResponseTtlMs ]),
                      processed |-> Append(st.processed, id),
                      errors |-> st.errors,
                      now |-> st.now ],
                    Tail(responses))

\* the batch loop that stops at the first item it cannot process
RECURSIVE ResponsesLoop_stopsAtError(_, _)
ResponsesLoop_stopsAtError(st, responses) ==
    IF responses = <<>> THEN st
    ELSE LET result == Head(responses)
             id == result.requestId
             error(kind) == [ st EXCEPT !.errors = Append(@, << id, kind >>) ]
         IN IF id \notin 1..Len(st.requests)
            THEN error("not found")
            ELSE IF st.requests[id].poolId # PoolId
            THEN error("different pool")
            ELSE IF st.requests[id].status # "pending"
            THEN error("not pending")
            ELSE ResponsesLoop_stopsAtError(
                    [ requests |-> updatePsiRequestStatus(st.requests, id, "completed"),
                      responses |-> insertPsiResponse(st.responses,
                                        [ requestId |-> id, poolId |-> PoolId,
                                          psiResponse |-> result.psiResponse,
                                          createdAt |-> st.now,
                                          expiresAt |-> st.now + ResponseTtlMs ]),
                      processed |-> Append(st.processed, id),
                      errors |-> st.errors,
                      now |-> st.now ],
                    Tail(responses))

\* the batch loop without the test that the request is still pending
RECURSIVE ResponsesLoop_noPendingCheck(_, _)
ResponsesLoop_noPendingCheck(st, responses) ==
    IF responses = <<>> THEN st
    ELSE LET result == Head(responses)
             id == result.requestId
             error(kind) == [ st EXCEPT !.errors = Append(@, << id, kind >>) ]
         IN IF id \notin 1..Len(st.requests)
            THEN ResponsesLoop_noPendingCheck(error("not found"), Tail(responses))
            ELSE IF st.requests[id].poolId # PoolId
            THEN ResponsesLoop_noPendingCheck(error("different pool"),
                                              Tail(responses))
            ELSE ResponsesLoop_noPendingCheck(
                    [ requests |-> updatePsiRequestStatus(st.requests, id, "completed"),
                      responses |-> insertPsiResponse(st.responses,
                                        [ requestId |-> id, poolId |-> PoolId,
                                          psiResponse |-> result.psiResponse,
                                          createdAt |-> st.now,
                                          expiresAt |-> st.now + ResponseTtlMs ]),
                      processed |-> Append(st.processed, id),
                      errors |-> st.errors,
                      now |-> st.now ],
                    Tail(responses))

\* the batch loop of POST /api/pools/:id/psi/responses
RECURSIVE ResponsesLoop(_, _)
ResponsesLoop(st, responses) ==
    IF responses = <<>> THEN st
    ELSE LET result == Head(responses)
             id == result.requestId
             error(kind) == [ st EXCEPT !.errors = Append(@, << id, kind >>) ]
         IN IF id \notin 1..Len(st.requests)
            THEN ResponsesLoop(error("not found"), Tail(responses))
            ELSE IF st.requests[id].poolId # PoolId
            THEN ResponsesLoop(error("different pool"), Tail(responses))
            ELSE IF st.requests[id].status # "pending"
            THEN ResponsesLoop(error("not pending"), Tail(responses))
            ELSE ResponsesLoop(
                    [ requests |-> updatePsiRequestStatus(st.requests, id, "completed"),
                      responses |-> insertPsiResponse(st.responses,
                                        [ requestId |-> id, poolId |-> PoolId,
                                          psiResponse |-> result.psiResponse,
                                          createdAt |-> st.now,
                                          expiresAt |-> st.now + ResponseTtlMs ]),
                      processed |-> Append(st.processed, id),
                      errors |-> st.errors,
                      now |-> st.now ],
                    Tail(responses))

\* POST /api/pools/:id/psi/responses: the owner's batch of processed requests;
\* the response carries the number of error strings
PsiResponsesRequest(env, responses) ==
    LET authError == verifyOwnerSignature("psi-responses", PoolId,
                                          env.ownerPublicKey, env.signature,
                                          env.timestamp)
        done == ResponsesLoop([ requests |-> psiRequests,
                                responses |-> psiResponses,
                                processed |-> <<>>, errors |-> <<>>,
                                now |-> DateNow ], responses)
    IN IF authError # "none"
       THEN /\ resp' = Response("psi-responses", "FORBIDDEN")
            /\ RefusedLeaves
       ELSE IF ~psiSetup.exists
       THEN /\ resp' = Response("psi-responses", "BAD_REQUEST")
            /\ RefusedLeaves
       ELSE /\ psiRequests' = done.requests
            /\ psiResponses' = done.responses
            /\ resp' = [ op |-> "psi-responses", code |-> "ok",
                         processed |-> Len(done.processed),
                         processedIds |-> done.processed,
                         errors |-> Len(done.errors) ]
            /\ UNCHANGED << now, pool, prefs, matchResult, participants,
                            witness, jobs, poolsBeingClosed, stats, returned,
                            accepted, lastDetect, psiSetup, besidePsi >>

\* GET /api/psi/response/:requestId: the client polls, nothing is written
PsiResponsePoll(requestId) ==
    LET response == getPsiResponse(requestId)
    IN /\ resp' = Response("psi-response",
                     IF requestId \notin 1..Len(psiRequests) THEN "NOT_FOUND"
                     ELSE IF psiRequests[requestId].status = "pending" THEN "pending"
                     ELSE IF psiRequests[requestId].status = "expired" THEN "expired"
                     ELSE IF response = <<>> THEN "INTERNAL"
                     ELSE IF DateNow > response[1].expiresAt THEN "expired"
                     ELSE "completed")
       /\ RefusedLeaves

\* ----------------------------------------------------------- gates/index.ts
\* the gates: every gate record has the fields of all gate types
OpenGate ==
    [ type |-> "open", allowedKeys |-> {}, issuerId |-> 0, operator |-> "none",
      gates |-> <<>> ]

InviteListGate(allowedKeys) ==
    [ type |-> "invite-list", allowedKeys |-> allowedKeys, issuerId |-> 0,
      operator |-> "none", gates |-> <<>> ]

FreebirdGate(issuerId) ==
    [ type |-> "freebird", allowedKeys |-> {}, issuerId |-> issuerId,
      operator |-> "none", gates |-> <<>> ]

CompositeGate(operator, gates) ==
    [ type |-> "composite", allowedKeys |-> {}, issuerId |-> 0,
      operator |-> operator, gates |-> gates ]

\* a context without a Freebird proof
NoProof == [ present |-> FALSE, valid |-> FALSE, expiration |-> 0, issuerId |-> 0 ]

\* a GateResult, with the number of calls of FreebirdAdapter.verify made for it
GateResult(eligible, reason, verifyCalls) ==
    [ threw |-> FALSE, eligible |-> eligible, reason |-> reason,
      verifyCalls |-> verifyCalls ]

\* the evaluation ended with a rejected promise instead of a GateResult
GateThrew(verifyCalls) ==
    [ threw |-> TRUE, eligible |-> FALSE, reason |-> "", verifyCalls |-> verifyCalls ]

NoGateCall == [ gate |-> OpenGate, context |-> 0, freebird |-> 0 ]

NoGateResult ==
    [ threw |-> FALSE, eligible |-> FALSE, reason |-> "none", verifyCalls |-> 0 ]

\* FreebirdAdapter.verify: "true", "false", or "throws" for a rejected promise.
\* An adapter answers by the token while its verifier is reachable; when it is
\* not, it answers false (HttpFreebirdAdapter catches the error) or rejects.
FreebirdVerify(freebird, proof) ==
    IF ~freebird.reachable
    THEN IF freebird.rejects THEN "throws" ELSE "false"
    ELSE IF proof.valid THEN "true" ELSE "false"

\* FreebirdAdapter.isExpired
isExpired(proof) == DateNow > proof.expiration

\* the same result with more verify calls counted
WithCalls(result, calls) ==
    [ result EXCEPT !.verifyCalls = @ + calls ]

\* OpenGateEvaluator.evaluate
OpenGateEvaluator(gate, context) ==
    GateResult(TRUE, "Open gate - all participants eligible", 0)

\* InviteListGateEvaluator.evaluate; no participant key is 0
InviteListGateEvaluator(gate, context) ==
    IF context.participantKey = 0
    THEN GateResult(FALSE, "Participant key required for invite-list gate", 0)
    ELSE IF context.participantKey \in gate.allowedKeys
    THEN GateResult(TRUE, "Key found in invite list", 0)
    ELSE GateResult(FALSE, "Key not in invite list", 0)

\* FreebirdGateEvaluator.evaluate
FreebirdGateEvaluator(gate, context, freebird) ==
    IF ~freebird.configured
    THEN GateResult(FALSE, "Freebird adapter not configured", 0)
    ELSE IF ~context.freebirdProof.present
    THEN GateResult(FALSE, "Freebird token required for this pool", 0)
    ELSE IF context.freebirdProof.issuerId # gate.issuerId
    THEN GateResult(FALSE, "Token must be from issuer", 0)
    ELSE IF isExpired(context.freebirdProof)
    THEN GateResult(FALSE, "Freebird token has expired", 0)
    ELSE LET isValid == FreebirdVerify(freebird, context.freebirdProof)
         IN IF isValid = "true"
            THEN GateResult(TRUE, "Valid Freebird token", 1)
            ELSE IF isValid = "false"
            THEN GateResult(FALSE, "Invalid Freebird token", 1)
            ELSE GateResult(FALSE, "Freebird verification failed", 1)

RECURSIVE GateSystemEvaluate(_, _, _)
RECURSIVE CompositeLoop(_, _, _, _, _)

\* the for loop of CompositeGateEvaluator.evaluate over the sub-gates left,
\* with the verify calls made so far
CompositeLoop(operator, gates, context, freebird, calls) ==
    IF gates = <<>>
    THEN IF operator = "and"
         THEN GateResult(TRUE, "All AND sub-gates passed", calls)
         ELSE GateResult(FALSE, "No OR sub-gates passed", calls)
    ELSE LET result == GateSystemEvaluate(Head(gates), context, freebird)
         IN IF result.threw
            THEN GateThrew(calls + result.verifyCalls)
            ELSE IF operator = "and" /\ ~result.eligible
            THEN GateResult(FALSE, "AND gate failed", calls + result.verifyCalls)
            ELSE IF operator = "or" /\ result.eligible
            THEN GateResult(TRUE, "OR gate passed", calls + result.verifyCalls)
            ELSE CompositeLoop(operator, Tail(gates), context, freebird,
                               calls + result.verifyCalls)

\* CompositeGateEvaluator.evaluate without the test for an empty gate list
CompositeGateEvaluator_noEmptyCheck(gate, context, freebird) ==
    CompositeLoop(gate.operator, gate.gates, context, freebird, 0)

\* CompositeGateEvaluator.evaluate
CompositeGateEvaluator(gate, context, freebird) ==
    IF Len(gate.gates) = 0
    THEN GateResult(FALSE, "Composite gate has no sub-gates", 0)
    ELSE CompositeLoop(gate.operator, gate.gates, context, freebird, 0)

\* GateSystem.evaluate
GateSystemEvaluate(gate, context, freebird) ==
    LET preVerify == context.freebirdProof.present /\ freebird.configured
        proofValid == FreebirdVerify(freebird, context.freebirdProof)
        calls == IF preVerify THEN 1 ELSE 0
    IN IF preVerify /\ proofValid = "throws"
       THEN GateThrew(calls)
       ELSE IF preVerify /\ proofValid = "false"
       THEN GateResult(FALSE, "Invalid Freebird proof", calls)
       ELSE IF preVerify /\ isExpired(context.freebirdProof)
       THEN GateResult(FALSE, "Freebird proof expired", calls)
       ELSE CASE gate.type = "open" ->
                   WithCalls(OpenGateEvaluator(gate, context), calls)
              [] gate.type = "invite-list" ->
                   WithCalls(InviteListGateEvaluator(gate, context), calls)
              [] gate.type = "freebird" ->
                   WithCalls(FreebirdGateEvaluator(gate, context, freebird), calls)
              [] gate.type = "composite" ->
                   WithCalls(CompositeGateEvaluator(gate, context, freebird), calls)
              [] OTHER -> GateResult(FALSE, "Unknown gate type", calls)

\* one call of GateSystem.evaluate with the gate, context and adapter of gateCall
Evaluate ==
    /\ gateResult = NoGateResult
    /\ gateResult' = GateSystemEvaluate(gateCall.gate, gateCall.context,
                                        gateCall.freebird)
    /\ resp' = Response("evaluate", IF gateResult'.threw THEN "THROWN" ELSE "ok")
    /\ UNCHANGED << now, pool, prefs, matchResult, participants, witness, jobs,
                    poolsBeingClosed, stats, returned, accepted, lastDetect,
                    gateCall, besideGates >>

\* the gates evaluated: the three kinds of leaf, composites of up to
\* MaxChildren leaves, and composites of a leaf and such a composite
Issuers == { 1, 2 }

LeafGates == { OpenGate, InviteListGate({ getPublicKey(1) }), FreebirdGate(1) }

CompositesOf(gates) ==
    { CompositeGate(operator, children) :
        operator \in { "and", "or" },
        children \in UNION { [ 1..n -> gates ] : n \in 0..MaxChildren } }

NestedGates ==
    { CompositeGate(operator, << leaf, inner >>) :
        operator \in { "and", "or" }, leaf \in { OpenGate, FreebirdGate(1) },
        inner \in CompositesOf({ OpenGate, FreebirdGate(1) }) }

Gates == LeafGates \cup CompositesOf(LeafGates) \cup NestedGates

\* the proofs a context may carry: accepted by the verifier or not, from the
\* issuer of the gates or another, expiring after the first tick or never
\* within the run
Proofs ==
    { NoProof } \cup
    [ present : { TRUE }, valid : BOOLEAN, expiration : { 1, MaxTime + ClockOrigin },
      issuerId : Issuers ]

Contexts ==
    [ participantKey : { 0, getPublicKey(1), getPublicKey(2) },
      freebirdProof : Proofs ]

\* no adapter, or an adapter whose verifier is reachable or not and whose
\* verify rejects or answers false when it is not
Adapters ==
    { [ configured |-> FALSE, reachable |-> FALSE, rejects |-> FALSE ] } \cup
    [ configured : { TRUE }, reachable : BOOLEAN, rejects : BOOLEAN ]

GateCalls == [ gate : Gates, context : Contexts, freebird : Adapters ]

\* ------------------------------------------------------------ federation.ts
\* a message without an authToken field
NoToken == [ present |-> FALSE, wellFormed |-> FALSE, exp |-> 0, genuine |-> FALSE ]

\* FreebirdAuthProvider.verifyAuthToken: false for a token that does not
\* deserialize, has expired, or is refused by the verifier
verifyAuthToken(token) ==
    IF ~token.wellFormed THEN FALSE
    ELSE IF token.exp < DateNow THEN FALSE
    ELSE token.genuine

\* isAnonymousMessage: 'authToken' in msg && !('from' in msg); no sender is 0
isAnonymousMessage(msg) == msg.authToken.present /\ msg.from = 0

\* Rendezvous.checkEligibility of the pool, whose gate is the default gate of
\* createPool: the invite list holding the creator key
eligibilityGate == InviteListGate({ creatorPublicKey })

checkEligibility(publicKey) ==
    GateSystemEvaluate(eligibilityGate,
                       [ participantKey |-> publicKey, freebirdProof |-> NoProof ],
                       [ configured |-> FALSE, reachable |-> FALSE,
                         rejects |-> FALSE ])

\* the message changed nothing but the log
Ignored(op, code) ==
    /\ resp' = Response(op, code)
    /\ RefusedLeaves

\* federation.on('tokens:relayed'): submitPreferences, errors logged
onTokensRelayed(relay) ==
    IF relay.poolId # PoolId
    THEN Ignored("tokens:relayed", "POOL_NOT_FOUND")
    ELSE submitPreferencesFrom("tokens:relayed", relay.nullifier,
                               relay.matchTokens, <<>>, 0)

\* federation.on('join:request'): decrypt the payload with the instance key,
\* check the eligibility of the public key, register the participant
onJoinRequest(request) ==
    IF request.encryptedFor # creatorPublicKey
    THEN Ignored("join:request", "DECRYPT_FAILED")
    ELSE IF request.poolId # PoolId
    THEN Ignored("join:request", "POOL_NOT_FOUND")
    ELSE IF ~checkEligibility(request.publicKey).eligible
    THEN Ignored("join:request", "NOT_ELIGIBLE")
    ELSE registerParticipant(request.publicKey)

\* FREEBIRD_VERIFIER_URL is set: the server enforces invites, and the adapter
\* is constructed
FREEBIRD_VERIFIER_URL == TRUE

freebirdAdapter == FREEBIRD_VERIFIER_URL

\* a pool row that carries the optional requiresInviteToJoin field
WithInvite(p, requiresInviteToJoin) ==
    [ f \in DOMAIN p \cup { "requiresInviteToJoin" } |->
        IF f = "requiresInviteToJoin" THEN requiresInviteToJoin ELSE p[f] ]

\* HttpFreebirdAdapter.verifyInviteCode: true for a code the verifier accepts;
\* false when the verifier refuses it or does not answer
verifyInviteCode(inviteCode, answers) == answers /\ inviteCode = "valid"

\* POST /api/pools/:id/submit: `health` is the outcome of the connectivity
\* check ("ok", "error" for a status of 500 or more, "disconnected"), `answers`
\* whether the verifier answers the verification that follows
PostSubmit(request, health, answers) ==
    IF Len(request.matchTokens) = 0 \/ request.nullifier = 0
    THEN Ignored("submit", "400")
    ELSE IF pool.requiresInviteToJoin /\ FREEBIRD_VERIFIER_URL /\ health # "ok"
    THEN Ignored("submit", "503")
    ELSE IF /\ pool.requiresInviteToJoin /\ FREEBIRD_VERIFIER_URL
            /\ request.inviteCode = "none"
    THEN Ignored("submit", "403")
    ELSE IF /\ pool.requiresInviteToJoin /\ FREEBIRD_VERIFIER_URL
            /\ freebirdAdapter
            /\ ~verifyInviteCode(request.inviteCode, answers)
    THEN Ignored("submit", "403")
    ELSE submitPreferences(request.nullifier, request.matchTokens, <<>>, 0)

\* FederationManager.handleAnonymousMessage that routes before it verifies
handleAnonymousMessage_noVerification(msg) ==
    CASE msg.type = "join_request" -> onJoinRequest(msg)
      [] msg.type = "token_relay" -> onTokensRelayed(msg)
      [] OTHER -> Ignored("federation", "UNHANDLED")

\* FederationManager.handleAnonymousMessage
handleAnonymousMessage(msg) ==
    IF ~verifyAuthToken(msg.authToken)
    THEN Ignored("federation", "DROPPED")
    ELSE CASE msg.type = "join_request" -> onJoinRequest(msg)
           [] msg.type = "token_relay" -> onTokensRelayed(msg)
           [] OTHER -> Ignored("federation", "UNHANDLED")

\* the promise of a join request: not sent, waiting, resolved or rejected; how
\* long it waited, in ticks of 10 s; how often it was settled
NoJoin == [ state |-> "idle", waited |-> 0, settled |-> 0 ]

\* setTimeout(..., 30000) in ticks of 10 s
JoinTimeoutMs == 3

\* the join_response case of handleMessage that resolves the oldest pending
\* request whatever the message id
JoinResponseCase_anyPending(msg) ==
    IF DOMAIN pendingResponses = {}
    THEN Ignored("join_response", "NO_PENDING")
    ELSE LET id == CHOOSE i \in DOMAIN pendingResponses :
                      \A j \in DOMAIN pendingResponses : i <= j
         IN /\ joins' = [ joins EXCEPT ![id].state = "resolved",
                                       ![id].settled = @ + 1 ]
            /\ pendingResponses'
                 = [ i \in DOMAIN pendingResponses \ { id } |-> pendingResponses[i] ]
            /\ resp' = Response("join_response", "ok")
            /\ UNCHANGED << now, pool, prefs, matchResult, participants,
                            witness, jobs, poolsBeingClosed, stats, returned,
                            accepted, lastDetect, sent, besideFederation >>

\* the join_response case of handleMessage: resolve the pending request with
\* the message id and delete its entry
JoinResponseCase(msg) ==
    IF msg.messageId \notin DOMAIN pendingResponses
    THEN Ignored("join_response", "NO_PENDING")
    ELSE /\ joins' = [ joins EXCEPT ![msg.messageId].state = "resolved",
                                    ![msg.messageId].settled = @ + 1 ]
         /\ pendingResponses'
              = [ i \in DOMAIN pendingResponses \ { msg.messageId } |->
                    pendingResponses[i] ]
         /\ resp' = Response("join_response", "ok")
         /\ UNCHANGED << now, pool, prefs, matchResult, participants, witness,
                         jobs, poolsBeingClosed, stats, returned, accepted,
                         lastDetect, sent, besideFederation >>

\* FederationManager.handleMessage for a message of a connected peer
handleMessage(msg) ==
    IF isAnonymousMessage(msg)
    THEN handleAnonymousMessage(msg)
    ELSE CASE msg.type = "ping" ->
                /\ Len(sent) < MaxSent
                /\ sent' = Append(sent, "pong")
                /\ resp' = Response("ping", "ok")
                /\ UNCHANGED << now, pool, prefs, matchResult, participants,
                                witness, jobs, poolsBeingClosed, stats, returned,
                                accepted, lastDetect, pendingResponses, joins,
                                besideFederation >>
           [] msg.type = "join_response" -> JoinResponseCase(msg)
           [] OTHER -> Ignored("federation", "UNHANDLED")

\* FederationManager.requestJoin with the fresh message id, to a connected
\* owner instance: sendAndWaitForResponse starts the timeout, stores the
\* pending entry and sends the request
requestJoin(messageId) ==
    /\ joins[messageId].state = "idle"
    /\ Len(sent) < MaxSent
    /\ pendingResponses'
         = [ i \in DOMAIN pendingResponses \cup { messageId } |->
               IF i = messageId THEN JoinTimeoutMs ELSE pendingResponses[i] ]
    /\ joins' = [ joins EXCEPT ![messageId].state = "pending" ]
    /\ sent' = Append(sent, "join_request")
    /\ resp' = Response("requestJoin", "ok")
    /\ UNCHANGED << now, pool, prefs, matchResult, participants, witness, jobs,
                    poolsBeingClosed, stats, returned, accepted, lastDetect,
                    besideFederation >>

\* the timeout callback of sendAndWaitForResponse, due when nothing is left of
\* the 30 s: delete the pending entry and reject
TimeoutFires(messageId) ==
    /\ messageId \in DOMAIN pendingResponses
    /\ pendingResponses[messageId] = 0
    /\ pendingResponses'
         = [ i \in DOMAIN pendingResponses \ { messageId } |-> pendingResponses[i] ]
    /\ joins' = [ joins EXCEPT ![messageId].state = "timeout",
                               ![messageId].settled = @ + 1 ]
    /\ resp' = Response("requestJoin", "Request timed out")
    /\ UNCHANGED << now, pool, prefs, matchResult, participants, witness, jobs,
                    poolsBeingClosed, stats, returned, accepted, lastDetect,
                    sent, besideFederation >>

\* ten seconds pass: every running timeout comes closer; a timeout that is due
\* fires before more time passes
TenSeconds ==
    /\ DOMAIN pendingResponses # {}
    /\ \A i \in DOMAIN pendingResponses : pendingResponses[i] > 0
    /\ pendingResponses' = [ i \in DOMAIN pendingResponses |-> pendingResponses[i] - 1 ]
    /\ joins' = [ i \in DOMAIN joins |->
                    IF i \in DOMAIN pendingResponses
                    THEN [ joins[i] EXCEPT !.waited = @ + 1 ]
                    ELSE joins[i] ]
    /\ resp' = NoResponse
    /\ UNCHANGED << now, pool, prefs, matchResult, participants, witness, jobs,
                    poolsBeingClosed, stats, returned, accepted, lastDetect,
                    sent, besideFederation >>

InitFederation ==
    /\ pendingResponses = << >>
    /\ joins = [ i \in 1..MaxJoins |-> NoJoin ]
    /\ sent = << >>

\* the auth tokens of incoming messages: garbled, or well-formed with an
\* expiry before or after every clock value and accepted by the verifier or not
AuthTokens ==
    { [ present |-> TRUE, wellFormed |-> FALSE, exp |-> 0, genuine |-> FALSE ] }
    \cup [ present : { TRUE }, wellFormed : { TRUE },
           exp : { 1, MaxTime + ClockOrigin }, genuine : BOOLEAN ]

\* a federation message with the fields of all message types
FederationMessage(type, authToken, from, messageId, poolId, publicKey, encryptedFor, nullifier, matchTokens) ==
    [ type |-> type, authToken |-> authToken, from |-> from,
      messageId |-> messageId, poolId |-> poolId, publicKey |-> publicKey,
      encryptedFor |-> encryptedFor, nullifier |-> nullifier,
      matchTokens |-> matchTokens ]

\* join requests and token relays, anonymous or carrying a sender
JoinRequests ==
    { FederationMessage("join_request", token, from, 1, poolId, publicKey,
                        encryptedFor, 0, <<>>) :
        token \in AuthTokens, from \in { 0, 1 }, poolId \in { PoolId, OtherPoolId },
        publicKey \in { getPublicKey(1), getPublicKey(2) },
        encryptedFor \in { getPublicKey(1), getPublicKey(2) } }

TokenRelays ==
    { FederationMessage("token_relay", token, from, 1, poolId, 0, 0, nullifier,
                        << MutualToken >>) :
        token \in AuthTokens, from \in { 0, 1 }, poolId \in { PoolId, OtherPoolId },
        nullifier \in Nullifiers }

\* the messages of an identified peer: ping and join_response
Pings == { FederationMessage("ping", NoToken, 1, 1, 0, 0, 0, 0, <<>>) }

JoinResponses ==
    { FederationMessage("join_response", NoToken, 1, messageId, PoolId,
                        getPublicKey(1), 0, 0, <<>>) :
        messageId \in 1..(MaxJoins + 1) }

\* the actions an owner signs
OwnerActions == { "pool-close", "psi-owner-setup", "psi-pending", "psi-responses" }

\* the values of Date.now() and of the timestamps of requests
Times == 1..(MaxTime + ClockOrigin)

\* the envelope the creator's client builds at time ts for the action
OwnerEnvelope(action, ts) ==
    [ ownerPublicKey |-> creatorPublicKey,
      signature |-> createSignedRequest(action, PoolId, 1, ts).signature,
      timestamp |-> ts ]

\* the envelopes a request for the action may carry: the creator's own, and
\* that envelope with another owner key, another signer, the envelope somebody
\* else builds, a signature over another action, over another pool id or over
\* another timestamp than the one sent, no signature, no timestamp
EnvelopesFor(action) ==
    UNION { { OwnerEnvelope(action, ts),
              [ OwnerEnvelope(action, ts) EXCEPT
                  !.ownerPublicKey = getPublicKey(2) ],
              [ OwnerEnvelope(action, ts) EXCEPT
                  !.signature = sign(SignedMessage(action, PoolId, ts), 2) ],
              [ ownerPublicKey |-> getPublicKey(2),
                signature |-> sign(SignedMessage(action, PoolId, ts), 2),
                timestamp |-> ts ],
              [ OwnerEnvelope(action, ts) EXCEPT
                  !.signature = sign(SignedMessage(action, OtherPoolId, ts), 1) ],
              [ OwnerEnvelope(action, ts) EXCEPT !.signature = NoSignature ],
              [ OwnerEnvelope(action, ts) EXCEPT !.timestamp = 0 ] }
            \cup { [ OwnerEnvelope(action, ts) EXCEPT
                       !.signature = sign(SignedMessage(other, PoolId, ts), 1) ] :
                   other \in OwnerActions \ { action } }
            \cup { [ OwnerEnvelope(action, ts) EXCEPT !.timestamp = stamp ] :
                   stamp \in Times \ { ts } } :
            ts \in Times }

\* the envelopes of every owner action
Envelopes == [ action \in OwnerActions |-> EnvelopesFor(action) ]

\* the items of a response batch: a request id that may not exist and the
\* serialized PSI response, which the server stores without reading it
PsiPayloads == { 1 }

BatchItems ==
    [ requestId : 1..(MaxRequests + 1), psiResponse : PsiPayloads ]

Batches == UNION { [ 1..n -> BatchItems ] : n \in 0..MaxBatch }

\* ------------------------------------------------------ federation: the mesh
\* Two federated instances.  The address a peer dials to reach instance i is i;
\* the endpoint an instance declares in its InstanceId record is
\* ws://localhost:<port>, which is the address its peers dial only when all
\* instances run on one host.
Instances == { 1, 2 }

LocalhostEndpoint == 9

\* buildFederationConfig: the InstanceId record of instance i
InstanceRecord(i, oneHost) ==
    [ id |-> i, endpoint |-> IF oneHost THEN i ELSE LocalhostEndpoint ]

\* PeerState, with the socket peerSockets holds for the peer (0: none)
NoPeer == [ known |-> FALSE, endpoint |-> 0, connected |-> FALSE,
            retryCount |-> 0, socket |-> 0 ]

\* a WebSocket: the instance that dialled, the address it dialled, the state
\* of the connector's end and of the acceptor's end, the instance id the
\* acceptor learned from the handshake (connectedInstanceId, 0: null) and the
\* messages in flight to each end
NewSocket(from, endpoint) ==
    [ from |-> from, to |-> endpoint, connector |-> "connecting",
      acceptor |-> "none", connectedInstanceId |-> 0,
      toAcceptor |-> << >>, toConnector |-> << >> ]

\* the instance at the other end of socket s
OtherEnd(s, i) == IF sockets[s].from = i THEN sockets[s].to ELSE sockets[s].from

\* ws.readyState === WebSocket.OPEN at the end instance i holds
IsOpen(socks, s, i) ==
    /\ s \in 1..Len(socks)
    /\ IF socks[s].from = i THEN socks[s].connector = "open"
                            ELSE socks[s].acceptor = "open"

\* ws.send(data) by instance i: the message travels to the other end; what
\* is written to an end that is gone is lost
Send(socks, s, i, msg) ==
    IF ~IsOpen(socks, s, i) THEN socks
    ELSE IF socks[s].from = i
    THEN IF socks[s].acceptor = "open"
         THEN [ socks EXCEPT ![s].toAcceptor = Append(@, msg) ]
         ELSE socks
    ELSE IF socks[s].connector = "open"
         THEN [ socks EXCEPT ![s].toConnector = Append(@, msg) ]
         ELSE socks

\* ---- the Automerge document: the set of the operations applied to it.  An
\* operation puts a value at a key of an object: the root maps instances and
\* pools sit at the keys of the document (obj = 0), an instance or pool record
\* at a key of a root map, and a field value at a field of a record (obj = the
\* id of the operation that made the containing object).  The id of an
\* operation is the pair of a Lamport counter and the actor; its pred are the
\* operations at the same place it overwrites.  The operations of one
\* assignment of a record carry one id.
OpId(counter, actor) == counter * 10 + actor

MaxCounter(ops) ==
    IF ops = {} THEN 0
    ELSE (CHOOSE o \in ops : \A q \in ops : q.id <= o.id).id \div 10

NextOpId(ops, actor) == OpId(MaxCounter(ops) + 1, actor)

\* the operations at a place that no operation of the document overwrites
Visible(ops, map, obj, key) ==
    { o \in ops : /\ o.map = map /\ o.obj = obj /\ o.key = key
                  /\ \A q \in ops : o.id \notin q.pred }

\* the operation that wins a conflict: the one with the greatest id
Winner(candidates) ==
    CHOOSE o \in candidates : \A q \in candidates : q.id <= o.id

\* the object doc[map] reads
RootObject(ops, map) == Winner(Visible(ops, "root", 0, map)).id

\* an operation of actor on top of ops
Op(ops, actor, map, obj, key, value) ==
    [ id |-> NextOpId(ops, actor), map |-> map, obj |-> obj, key |-> key,
      value |-> value, pred |-> { o.id : o \in Visible(ops, map, obj, key) } ]

\* Automerge.from({ instances: { [id]: instance }, pools: {}, version: 1 })
AutomergeFrom(actor, instance) ==
    LET instances == Op({}, actor, "root", 0, "instances", << >>)
        record == Op({ instances }, actor, "instances", instances.id, actor, instance)
        pools == Op({ instances, record }, actor, "root", 0, "pools", << >>)
    IN { instances, record, pools }

\* doc[map][key] = value inside Automerge.change
AssignObject(ops, actor, map, key, value) ==
    ops \cup { Op(ops, actor, map, RootObject(ops, map), key, value) }

\* doc.pools[poolId], or no record
HasPool(ops, key) == Visible(ops, "pools", RootObject(ops, "pools"), key) # {}

\* the fields of a pool record that change after its announcement
PoolFields == { "phase", "participantCount", "updatedAt" }

\* Object.assign(doc.pools[poolId], updates) inside Automerge.change: one
\* assignment per field of updates, to the object doc.pools[poolId] reads
RECURSIVE AssignFields(_, _, _, _)
AssignFields(ops, actor, key, updates) ==
    IF DOMAIN updates = {} THEN ops
    ELSE LET object == Winner(Visible(ops, "pools", RootObject(ops, "pools"), key))
             field == CHOOSE f \in DOMAIN updates : TRUE
             rest == [ f \in DOMAIN updates \ { field } |-> updates[f] ]
         IN AssignFields(ops \cup { Op(ops, actor, "field", object.id, field,
                                       updates[field]) },
                         actor, key, rest)

\* what doc[map] reads: key -> the record that wins at the key, each field
\* with the value of the assignment that wins at the field
View(ops, map) ==
    LET root == RootObject(ops, map)
        keys == { o.key : o \in { q \in ops : q.map = map /\ q.obj = root } }
    IN [ key \in keys |->
           LET object == Winner(Visible(ops, map, root, key))
           IN [ f \in DOMAIN object.value |->
                  LET assigned == Visible(ops, "field", object.id, f)
                  IN IF assigned = {} THEN object.value[f]
                     ELSE Winner(assigned).value ] ]

\* Automerge.initSyncState()
initSyncState == [ theirKnown |-> FALSE, theirHeads |-> {},
                   sentOnce |-> FALSE, lastSentHeads |-> {} ]

Heads(ops) == { o.id : o \in ops }

\* Automerge.generateSyncMessage(doc, syncState): nothing when the heads were
\* sent before, equal the heads of the peer and no change is left to send;
\* otherwise the heads and the changes the peer is known to lack
generateSyncMessage(ops, syncState) ==
    LET changes == IF syncState.theirKnown
                   THEN { o \in ops : o.id \notin syncState.theirHeads }
                   ELSE {}
        headsUnchanged == syncState.sentOnce /\ syncState.lastSentHeads = Heads(ops)
        headsEqual == syncState.theirKnown /\ syncState.theirHeads = Heads(ops)
    IN IF headsUnchanged /\ headsEqual /\ changes = {}
       THEN [ message |-> FALSE, heads |-> {}, changes |-> {},
              syncState |-> syncState ]
       ELSE [ message |-> TRUE, heads |-> Heads(ops), changes |-> changes,
              syncState |-> [ syncState EXCEPT !.sentOnce = TRUE,
                                               !.lastSentHeads = Heads(ops) ] ]

\* Automerge.receiveSyncMessage(doc, syncState, message)
receiveSyncMessage(ops, syncState, msg) ==
    [ ops |-> ops \cup msg.changes,
      syncState |-> [ syncState EXCEPT !.theirKnown = TRUE,
                                       !.theirHeads = msg.heads ] ]

\* ---- the federation manager of instance i
\* what the mesh steps leave alone
besideMesh == << now, pool, prefs, matchResult, participants, witness, jobs,
                 poolsBeingClosed, stats, returned, accepted, lastDetect,
                 psiVars, gateVars, fedVars >>

HandshakeMessage(instance) ==
    [ type |-> "handshake", instance |-> instance ]

SyncMessage(from, generated) ==
    [ type |-> "sync", from |-> from, heads |-> generated.heads,
      changes |-> generated.changes ]

PoolAnnounceMessage(from, metadata) ==
    [ type |-> "pool_announce", from |-> from, pool |-> metadata ]

\* FederatedPoolMetadata of the pool of the model
FederatedPoolMetadata(owner, phase, participantCount) ==
    [ poolId |-> PoolId, ownerInstance |-> owner, phase |-> phase,
      participantCount |-> participantCount, updatedAt |-> DateNow ]

\* syncWithPeer(instanceId) of instance i, on the sockets and documents st,
\* with the peer entries prs
syncWithPeer(st, prs, i, instanceId) ==
    LET ws == prs[i][instanceId].socket
        generated == generateSyncMessage(st.docs[i].ops,
                                         st.docs[i].syncStates[instanceId])
    IN IF ws = 0 \/ ~IsOpen(st.sockets, ws, i) THEN st
       ELSE IF ~generated.message THEN st
       ELSE [ sockets |-> Send(st.sockets, ws, i, SyncMessage(i, generated)),
              docs |-> [ st.docs EXCEPT ![i].syncStates[instanceId]
                                          = generated.syncState ] ]

\* syncAllPeers: syncWithPeer for every connected peer of the peers map
RECURSIVE syncAllPeers(_, _, _, _)
syncAllPeers(st, prs, i, todo) ==
    IF todo = {} THEN st
    ELSE LET instanceId == CHOOSE j \in todo : TRUE
             next == IF prs[i][instanceId].known /\ prs[i][instanceId].connected
                     THEN syncWithPeer(st, prs, i, instanceId)
                     ELSE st
         IN syncAllPeers(next, prs, i, todo \ { instanceId })

\* broadcastMessage: the message to every open socket of peerSockets
RECURSIVE broadcastMessage(_, _, _, _, _)
broadcastMessage(st, prs, i, message, todo) ==
    IF todo = {} THEN st
    ELSE LET instanceId == CHOOSE j \in todo : TRUE
             ws == prs[i][instanceId].socket
             next == IF ws # 0 /\ IsOpen(st.sockets, ws, i)
                     THEN [ st EXCEPT !.sockets = Send(@, ws, i, message) ]
                     ELSE st
         IN broadcastMessage(next, prs, i, message, todo \ { instanceId })

\* every socket carries fewer than n undelivered messages
QueuesBelow(n) ==
    \A s \in 1..Len(sockets) :
        Len(sockets[s].toAcceptor) + Len(sockets[s].toConnector) < n

\* the pool operations instance i has made
LocalChanges(i) ==
    Cardinality({ o \in docs[i].ops :
                    o.id % 10 = managers[i].actor /\ o.map \in { "pools", "field" } })

\* FederationManager.start: connectToPeer for every configured peer
start(i) ==
    /\ ~managers[i].running
    /\ Len(sockets) + Len(managers[i].peers) <= MaxSockets
    /\ managers' = [ managers EXCEPT ![i].running = TRUE ]
    /\ sockets' = sockets \o [ k \in 1..Len(managers[i].peers) |->
                                 NewSocket(i, managers[i].peers[k]) ]
    /\ resp' = NoResponse
    /\ UNCHANGED << peers, docs, reconnects, besideMesh >>

\* ws 'open' at the connector, 'connection' at the server of the instance
\* that listens at the address: the connector sends its handshake,
\* handleIncomingConnection registers its handlers and sends nothing
SocketOpens(s) ==
    /\ sockets[s].connector = "connecting"
    /\ managers[sockets[s].to].running
    /\ sockets' = [ sockets EXCEPT
                      ![s].connector = "open",
                      ![s].acceptor = "open",
                      ![s].toAcceptor
                         = << HandshakeMessage(managers[sockets[s].from].instance) >> ]
    /\ resp' = NoResponse
    /\ UNCHANGED << managers, peers, docs, reconnects, besideMesh >>

\* the handshake case of handleMessage at instance i on socket s; endpoint
\* is the address i dialled when s is a socket of connectToPeer
handleHandshake(i, s, socks, message) ==
    LET instance == message.instance
        endpoint == IF socks[s].from = i THEN socks[s].to ELSE instance.endpoint
        prs == [ peers EXCEPT ![i][instance.id]
                   = [ known |-> TRUE, endpoint |-> endpoint, connected |-> TRUE,
                       retryCount |-> 0, socket |-> s ] ]
        ds == [ docs EXCEPT ![i].syncStates[instance.id] = initSyncState,
                            ![i].ops = AssignObject(@, managers[i].actor, "instances",
                                                    instance.id, instance) ]
        marked == IF socks[s].from # i /\ socks[s].connectedInstanceId = 0
                  THEN [ socks EXCEPT ![s].connectedInstanceId = instance.id ]
                  ELSE socks
        done == syncWithPeer([ sockets |-> marked, docs |-> ds ], prs, i, instance.id)
    IN /\ peers' = prs
       /\ sockets' = done.sockets
       /\ docs' = done.docs
       /\ resp' = NoResponse
       /\ UNCHANGED << managers, reconnects, besideMesh >>

\* handleSyncMessage at instance i on socket s
handleSyncMessage(i, s, socks, msg) ==
    LET received == receiveSyncMessage(docs[i].ops, docs[i].syncStates[msg.from], msg)
        generated == generateSyncMessage(received.ops, received.syncState)
    IN /\ docs' = [ docs EXCEPT ![i].ops = received.ops,
                                ![i].syncStates[msg.from] = generated.syncState ]
       /\ sockets' = IF generated.message
                     THEN Send(socks, s, i, SyncMessage(i, generated))
                     ELSE socks
       /\ resp' = NoResponse
       /\ UNCHANGED << managers, peers, reconnects, besideMesh >>

\* handlePoolAnnounce at instance i
handlePoolAnnounce(i, socks, msg) ==
    /\ docs' = [ docs EXCEPT ![i].ops = AssignObject(@, managers[i].actor, "pools",
                                                     msg.pool.poolId, msg.pool) ]
    /\ sockets' = socks
    /\ resp' = NoResponse
    /\ UNCHANGED << managers, peers, reconnects, besideMesh >>

\* ws 'message' at one end of socket s: handleMessage with the oldest message
\* in flight to that end
SocketMessage(s, toConnector) ==
    LET i == IF toConnector THEN sockets[s].from ELSE sockets[s].to
        queue == IF toConnector THEN sockets[s].toConnector ELSE sockets[s].toAcceptor
        socks == IF toConnector
                 THEN [ sockets EXCEPT ![s].toConnector = Tail(@) ]
                 ELSE [ sockets EXCEPT ![s].toAcceptor = Tail(@) ]
    IN /\ queue # << >>
       /\ IsOpen(sockets, s, i)
       /\ CASE Head(queue).type = "handshake" -> handleHandshake(i, s, socks, Head(queue))
            [] Head(queue).type = "sync" -> handleSyncMessage(i, s, socks, Head(queue))
            [] OTHER -> handlePoolAnnounce(i, socks, Head(queue))

\* ws 'close' at the connector of socket s, for a connection that was open
\* or for an attempt that failed: the first peer entry with the endpoint is
\* marked disconnected and a reconnect is scheduled for it
ConnectorClose(s) ==
    LET i == sockets[s].from
        endpoint == sockets[s].to
        found == { j \in Instances : peers[i][j].known /\ peers[i][j].endpoint = endpoint }
    IN /\ sockets[s].connector \in { "connecting", "open" }
       /\ sockets' = [ sockets EXCEPT ![s].connector = "closed",
                                      ![s].toConnector = << >> ]
       /\ IF found = {}
          THEN UNCHANGED << peers, reconnects >>
          ELSE LET instanceId == CHOOSE j \in found : \A k \in found : j <= k
               IN /\ peers' = [ peers EXCEPT ![i][instanceId].connected = FALSE,
                                             ![i][instanceId].socket = 0,
                                             ![i][instanceId].retryCount = @ + 1 ]
                  /\ reconnects' = Append(reconnects,
                         [ instance |-> i, endpoint |-> endpoint,
                           remaining |-> peers[i][instanceId].retryCount + 1 ])
       /\ resp' = NoResponse
       /\ UNCHANGED << managers, docs, besideMesh >>

\* ws 'close' at the acceptor of socket s (handleIncomingConnection)
AcceptorClose(s) ==
    LET i == sockets[s].to
        connectedInstanceId == sockets[s].connectedInstanceId
    IN /\ sockets[s].acceptor = "open"
       /\ sockets' = [ sockets EXCEPT ![s].acceptor = "closed",
                                      ![s].connectedInstanceId = 0,
                                      ![s].toAcceptor = << >> ]
       /\ peers' = IF connectedInstanceId # 0 /\ peers[i][connectedInstanceId].known
                   THEN [ peers EXCEPT ![i][connectedInstanceId].connected = FALSE,
                                       ![i][connectedInstanceId].socket = 0 ]
                   ELSE peers
       /\ resp' = NoResponse
       /\ UNCHANGED << managers, docs, reconnects, besideMesh >>

\* the reconnect timer k is due: connectToPeer(endpoint)
ReconnectFires(k) ==
    LET timer == reconnects[k]
    IN /\ timer.remaining = 0
       /\ Len(sockets) < MaxSockets
       /\ reconnects' = [ j \in 1..(Len(reconnects) - 1) |->
                            IF j < k THEN reconnects[j] ELSE reconnects[j + 1] ]
       /\ sockets' = IF managers[timer.instance].running
                     THEN Append(sockets, NewSocket(timer.instance, timer.endpoint))
                     ELSE sockets
       /\ resp' = NoResponse
       /\ UNCHANGED << managers, peers, docs, besideMesh >>

\* five seconds pass: every reconnect timer comes closer; a timer that is due
\* fires before more time passes
FiveSeconds ==
    /\ reconnects # << >>
    /\ \A k \in 1..Len(reconnects) : reconnects[k].remaining > 0
    /\ reconnects' = [ k \in 1..Len(reconnects) |->
                         [ reconnects[k] EXCEPT !.remaining = @ - 1 ] ]
    /\ resp' = NoResponse
    /\ UNCHANGED << managers, peers, sockets, docs, besideMesh >>

\* FederationManager.announcePool; the announcement and the sync message
\* leave after their own random delays, in either order
announcePool(i, metadata, announceFirst) ==
    LET ds == [ docs EXCEPT ![i].ops = AssignObject(@, managers[i].actor, "pools",
                                                    metadata.poolId, metadata) ]
        st == [ sockets |-> sockets, docs |-> ds ]
        message == PoolAnnounceMessage(i, metadata)
        done == IF announceFirst
                THEN syncAllPeers(broadcastMessage(st, peers, i, message, Instances),
                                  peers, i, Instances)
                ELSE broadcastMessage(syncAllPeers(st, peers, i, Instances),
                                      peers, i, message, Instances)
    IN /\ LocalChanges(i) < MaxChanges
       /\ QueuesBelow(MaxQueue)
       /\ sockets' = done.sockets
       /\ docs' = done.docs
       /\ resp' = NoResponse
       /\ UNCHANGED << managers, peers, reconnects, besideMesh >>

\* FederationManager.updatePool
updatePool(i, poolId, updates) ==
    LET changed == [ f \in DOMAIN updates \cup { "updatedAt" } |->
                       IF f = "updatedAt" THEN DateNow ELSE updates[f] ]
        ds == IF HasPool(docs[i].ops, poolId)
              THEN [ docs EXCEPT ![i].ops = AssignFields(@, managers[i].actor, poolId,
                                                         changed) ]
              ELSE docs
        done == syncAllPeers([ sockets |-> sockets, docs |-> ds ], peers, i, Instances)
    IN /\ LocalChanges(i) < MaxChanges
       /\ QueuesBelow(MaxQueue)
       /\ sockets' = done.sockets
       /\ docs' = done.docs
       /\ resp' = NoResponse
       /\ UNCHANGED << managers, peers, reconnects, besideMesh >>

\* the periodic sync of instance i (setInterval(syncAllPeers, syncInterval))
SyncInterval(i) ==
    LET done == syncAllPeers([ sockets |-> sockets, docs |-> docs ], peers, i, Instances)
    IN /\ managers[i].running
       /\ QueuesBelow(MaxQueue)
       /\ done.sockets # sockets
       /\ sockets' = done.sockets
       /\ docs' = done.docs
       /\ resp' = NoResponse
       /\ UNCHANGED << managers, peers, reconnects, besideMesh >>

\* the managers after construction: nothing running, no peer, no socket, the
\* document of Automerge.from
InitMesh(configurations, hosts, actors) ==
    /\ \E config \in configurations, oneHost \in hosts, actor \in actors :
          managers = [ i \in Instances |->
                         [ running |-> FALSE, peers |-> config[i],
                           instance |-> InstanceRecord(i, oneHost),
                           actor |-> actor[i] ] ]
    /\ peers = [ i \in Instances |-> [ j \in Instances |-> NoPeer ] ]
    /\ sockets = << >>
    /\ docs = [ i \in Instances |->
                  [ ops |-> AutomergeFrom(managers[i].actor, managers[i].instance),
                    syncStates |-> [ j \in Instances |-> initSyncState ] ] ]
    /\ reconnects = << >>

\* FEDERATION_PEERS of the two instances: instance 1 dials instance 2, or
\* each dials the other
PeerConfigurations == { << << 2 >>, << >> >>, << << 2 >>, << 1 >> >> }

\* a server without federation peers
\* the actor ids Automerge draws for the two documents: random, so either
\* document's may be the greater
ActorIds == { << 1, 2 >>, << 2, 1 >> }

InitMeshIdle == InitMesh({ << << >>, << >> >> }, { TRUE }, { << 1, 2 >> })

\* a server with federation disabled: no manager is constructed
InitMeshNone ==
    /\ managers = << >>
    /\ peers = << >>
    /\ sockets = << >>
    /\ docs = << >>
    /\ reconnects = << >>

\* ------------------------------------------------------------ specification
\* the pools createPool accepts at time 0: with or without a commit phase, with
\* or without a preference limit; the reveal deadline is the last tick but one,
\* so that every phase is visited
PoolRequests(commitChoices, limitChoices, ephemeralChoices) ==
    { createPool(cd, MaxTime - 1, mp, eph) :
        cd \in commitChoices, mp \in limitChoices, eph \in ephemeralChoices }

InitCore(pools, witnessChoices) ==
    /\ now = 0
    /\ pool \in { p \in pools :
                    validateCreateRequest(p.commitDeadline, p.revealDeadline,
                                          p.maxPreferencesPerParticipant, 0) }
    /\ prefs = [ n \in Nullifiers |-> <<>> ]
    /\ matchResult = NoResult
    /\ participants = {}
    /\ witness \in witnessChoices
    /\ jobs = <<>>
    /\ poolsBeingClosed = FALSE
    /\ stats = [ counts |-> 0, attests |-> 0, failures |-> 0, inserts |-> 0,
                 deleted |-> 0 ]
    /\ returned = {}
    /\ accepted = [ n \in Nullifiers |-> <<>> ]
    /\ lastDetect = NoResult
    /\ resp = NoResponse
    /\ psiSetup = NoSetup
    /\ psiRequests = <<>>
    /\ psiResponses = <<>>

InitWith(pools, witnessChoices) ==
    /\ InitCore(pools, witnessChoices)
    /\ gateCall = NoGateCall
    /\ gateResult = NoGateResult
    /\ InitFederation
    /\ InitMeshNone

\* the same on a server with federation enabled and no peer configured
InitFederated(pools, witnessChoices) ==
    /\ InitCore(pools, witnessChoices)
    /\ gateCall = NoGateCall
    /\ gateResult = NoGateResult
    /\ InitFederation
    /\ InitMeshIdle

\* The library with no witness adapter: requests with every token list and
\* direct detectMatches calls, which run to their end without suspension.
Init == InitWith(PoolRequests({ 0, 1 }, { 0, 1 }, { FALSE }), { FALSE })

Submit ==
    \E n \in 0..NumNullifiers, toks \in TokenLists, draw \in { 0 } :
        submitPreferences(n, toks, <<>>, draw)

Reveal ==
    \E n \in 0..NumNullifiers, toks \in TokenSets : revealPreferences(n, toks)

Next ==
    \/ Tick
    \/ Submit
    \/ Reveal
    \/ ClosePoolCall
    \/ UpdatePoolStatusCall
    \/ DetectCall

Spec == Init /\ [][Next]_vars

\* The server with a pool that has no commit phase: a witness adapter may be
\* configured and the pool may be ephemeral; a participant registers,
\* participants submit one token each, owners post close requests, the
\* scheduler closes the expired pool, and the close timers and the attestations
\* of their detectMatches calls end in any order.
InitServer == InitWith(PoolRequests({ 0 }, { 0 }, BOOLEAN), BOOLEAN)

Register ==
    \E k \in { 1 } : registerParticipant(getPublicKey(k))

SubmitOne ==
    \E n \in Nullifiers, t \in Tokens, draw \in { 0 } :
        submitPreferences(n, << t >>, <<>>, draw)

NextServer ==
    \/ Tick
    \/ Register
    \/ SubmitOne
    \/ PostClose
    \/ checkAndCloseExpiredPools
    \/ \E j \in 1..Len(jobs) : TimerFires(j)
    \/ \E j \in 1..Len(jobs) : AttestReturns(j)
    \/ \E j \in 1..Len(jobs) : AttestFails(j)

SpecServer == InitServer /\ [][NextServer]_vars

\* The owner-only routes: requests for close, PSI setup, the pending poll and
\* a response batch arrive with every envelope of Envelopes while the clock
\* advances; one client queues a PSI request once the pool is closed and set up.
InitAuth == InitWith(PoolRequests({ 0 }, { 0 }, { FALSE }), { FALSE })

CloseSigned == \E env \in Envelopes["pool-close"] : PostCloseRequest(env)

SetupSigned ==
    \E env \in Envelopes["psi-owner-setup"] : PsiOwnerSetupRequest(env)

PendingSigned == \E env \in Envelopes["psi-pending"] : PsiPendingRequest(env)

ResponsesSigned ==
    \E env \in Envelopes["psi-responses"] :
        PsiResponsesRequest(env, << [ requestId |-> 1, psiResponse |-> 1 ] >>)

FirstRequest == psiRequests = <<>> /\ PsiRequest

NextAuth ==
    \/ Tick
    \/ CloseSigned
    \/ SetupSigned
    \/ FirstRequest
    \/ PendingSigned
    \/ ResponsesSigned

SpecAuth == InitAuth /\ [][NextAuth]_vars

\* The PSI queue: the creator closes the pool and stores the setup with fresh
\* envelopes; clients of this pool and of another pool queue requests; the
\* creator polls the pending requests and posts response batches of every
\* shape; clients poll for their results while the clock advances.
InitPsi == InitWith(PoolRequests({ 0 }, { 0 }, { FALSE }), { FALSE })

CloseFresh ==
    /\ pool.status # "closed"
    /\ PostCloseRequest(OwnerEnvelope("pool-close", DateNow))

SetupFresh == PsiOwnerSetupRequest(OwnerEnvelope("psi-owner-setup", DateNow))

PendingFresh == PsiPendingRequest(OwnerEnvelope("psi-pending", DateNow))

ResponsesFresh ==
    \E responses \in Batches :
        PsiResponsesRequest(OwnerEnvelope("psi-responses", DateNow), responses)

ResultPoll == \E requestId \in 1..(MaxRequests + 1) : PsiResponsePoll(requestId)

NextPsi ==
    \/ Tick
    \/ CloseFresh
    \/ SetupFresh
    \/ PsiRequest
    \/ PsiRequestOtherPool
    \/ PendingFresh
    \/ ResponsesFresh
    \/ ResultPoll

SpecPsi == InitPsi /\ [][NextPsi]_vars

\* The response batches alone: the creator closes the pool and stores the
\* setup, clients of this pool and of another queue requests, and the creator
\* posts batches of every shape, all within one tick of the clock.
InitBatch == InitWith(PoolRequests({ 0 }, { 0 }, { FALSE }), { FALSE })

NextBatch ==
    \/ CloseFresh
    \/ SetupFresh
    \/ PsiRequest
    \/ PsiRequestOtherPool
    \/ ResponsesFresh

SpecBatch == InitBatch /\ [][NextBatch]_vars

\* Eligibility: one evaluation of every gate of Gates with every context and
\* every adapter, at any time of the clock.
InitGates ==
    /\ InitCore(PoolRequests({ 0 }, { 0 }, { FALSE }), { FALSE })
    /\ InitFederation
    /\ InitMeshNone
    /\ gateCall \in GateCalls
    /\ gateResult = NoGateResult

TickBefore == gateResult = NoGateResult /\ Tick

NextGates ==
    \/ TickBefore
    \/ Evaluate

SpecGates == InitGates /\ [][NextGates]_vars

\* The receiving instance of the federation: join requests, token relays and
\* pings of every shape arrive while the clock advances.
InitReceive == InitFederated(PoolRequests({ 0 }, { 0 }, { FALSE }), { FALSE })

Receive == \E msg \in JoinRequests \cup TokenRelays \cup Pings : handleMessage(msg)

NextReceive ==
    \/ Tick
    \/ Receive

SpecReceive == InitReceive /\ [][NextReceive]_vars

\* The submit route and the federation relay of a server that enforces
\* invites: submissions with and without invite codes arrive while the verifier
\* is up, failing or unreachable, token relays arrive from peers, and the clock
\* advances.  The pool requires an invite to join or does not.
InitInvite ==
    InitFederated({ WithInvite(p, requires) :
                      p \in PoolRequests({ 0 }, { 0 }, { FALSE }),
                      requires \in BOOLEAN },
                  { FALSE })

\* the bodies of submit requests: a token under a nullifier, with no invite
\* code, one the verifier refuses or one it accepts
SubmitRequests ==
    [ nullifier : Nullifiers, matchTokens : { << MutualToken >> },
      inviteCode : { "none", "invalid", "valid" } ]

SubmitRoute ==
    \E request \in SubmitRequests, answers \in BOOLEAN :
        \E health \in { "ok", "error", "disconnected" } :
            PostSubmit(request, health, answers)

Relay == \E msg \in TokenRelays : handleMessage(msg)

NextInvite ==
    \/ Tick
    \/ SubmitRoute
    \/ Relay

SpecInvite == InitInvite /\ [][NextInvite]_vars

\* The requesting instance of the federation: join requests are sent, join
\* responses with every message id arrive, time passes and timeouts fire.  A
\* timeout that is due fires, and time passes while a request waits.
InitJoin == InitFederated(PoolRequests({ 0 }, { 0 }, { FALSE }), { FALSE })

SendJoin == \E messageId \in 1..MaxJoins : requestJoin(messageId)

ReceiveJoinResponse == \E msg \in JoinResponses : handleMessage(msg)

Timeout == \E messageId \in 1..MaxJoins : TimeoutFires(messageId)

NextJoin ==
    \/ SendJoin
    \/ ReceiveJoinResponse
    \/ TenSeconds
    \/ Timeout

SpecJoin ==
    /\ InitJoin
    /\ [][NextJoin]_vars
    /\ WF_vars(TenSeconds)
    /\ WF_vars(Timeout)

\* Two federation managers from their construction on: instance 1 dials
\* instance 2, or each dials the other; they run on one host or on two.
InitMeshSpec(configurations, hosts, actors) ==
    /\ InitCore(PoolRequests({ 0 }, { 0 }, { FALSE }), { FALSE })
    /\ gateCall = NoGateCall
    /\ gateResult = NoGateResult
    /\ InitFederation
    /\ InitMesh(configurations, hosts, actors)

InitConnect == InitMeshSpec(PeerConfigurations, BOOLEAN, { << 1, 2 >> })

InitSync == InitMeshSpec(PeerConfigurations, { TRUE }, ActorIds)

Start == \E i \in Instances : start(i)

Opens == \E s \in 1..Len(sockets) : SocketOpens(s)

Message == \E s \in 1..Len(sockets), toConnector \in BOOLEAN : SocketMessage(s, toConnector)

ClosesAtConnector == \E s \in 1..Len(sockets) : ConnectorClose(s)

ClosesAtAcceptor == \E s \in 1..Len(sockets) : AcceptorClose(s)

Reconnect == \E k \in 1..Len(reconnects) : ReconnectFires(k)

\* the updates of updatePool: the phase or the participant count
PoolUpdates == { [ phase |-> "closed" ], [ participantCount |-> 1 ] }

Announce ==
    \E i \in Instances, announceFirst \in BOOLEAN :
        announcePool(i, FederatedPoolMetadata(i, "open", 0), announceFirst)

Update == \E i \in Instances, updates \in PoolUpdates : updatePool(i, PoolId, updates)

Interval == \E i \in Instances : SyncInterval(i)

\* connections: made, opened, lost and made again
NextConnect ==
    \/ Start
    \/ Opens
    \/ Message
    \/ ClosesAtConnector
    \/ ClosesAtAcceptor
    \/ Reconnect
    \/ FiveSeconds

SpecConnect == InitConnect /\ [][NextConnect]_vars

\* replication: connections that stay, pool operations and sync messages
NextSync ==
    \/ Start
    \/ Opens
    \/ Message
    \/ Announce
    \/ Update
    \/ Interval

SpecSync == InitSync /\ [][NextSync]_vars

\* The commit-reveal protocol: a pool with a commit phase; a participant
\* submits the mutual token with the default commit hash, or a placeholder
\* with the commit hash of the mutual token; reveal requests carry the mutual
\* token, a token nobody committed to, both or none.
InitReveal == InitWith(PoolRequests({ 1 }, { 0 }, { FALSE }), { FALSE })

SubmitCommitted ==
    \E n \in Nullifiers, draw \in { 0 } :
        \/ submitPreferences(n, << MutualToken >>, <<>>, draw)
        \/ submitPreferences(n, << PlaceholderToken >>,
                             << commitToken(MutualToken) >>, draw)

\* the tokens a reveal request of the commit-reveal specification may carry
RevealTokens == { MutualToken, StrangerToken }

RevealAny ==
    \E n \in Nullifiers, toks \in SUBSET RevealTokens :
        revealPreferences(n, toks)

NextReveal ==
    \/ Tick
    \/ SubmitCommitted
    \/ RevealAny
    \/ DetectCall

SpecReveal == InitReveal /\ [][NextReveal]_vars

\* the library with one submitting participant and every outcome of the decoy
\* count's random draw
InitDecoys == InitWith(PoolRequests({ 0, 1 }, { 0 }, { FALSE }), { FALSE })

SubmitPadded ==
    \E n \in { 1 }, toks \in TokenLists, draw \in RandomDraws :
        submitPreferences(n, toks, <<>>, draw)

NextDecoys ==
    \/ Tick
    \/ SubmitPadded
    \/ RevealAny

SpecDecoys == InitDecoys /\ [][NextDecoys]_vars

\* the library with integrity verification and direct writes to the store;
\* the pool is closed by its owner, the clock stands still
InitIntegrity == InitWith(PoolRequests({ 0 }, { 0 }, { FALSE }), { FALSE })

SubmitDirect ==
    \E n \in Nullifiers, toks \in TokenLists, draw \in { 0 } :
        submitPreferences(n, toks, <<>>, draw)

\* the matched lists a direct store write may carry: the mutual token, the
\* first decoy of nullifier 1, both or none
InsertedTokens == { MutualToken, randomHex(1, 1) }

StoreWrite ==
    \E matchedTokens \in SUBSET InsertedTokens :
        StoreInsertMatchResult(matchedTokens)

NextIntegrity ==
    \/ SubmitDirect
    \/ ClosePoolCall
    \/ DetectCall
    \/ VerifyCall
    \/ StoreWrite

SpecIntegrity == InitIntegrity /\ [][NextIntegrity]_vars

\* The server left running with an attestation service that always answers:
\* the clock advances, the 60-second interval keeps calling the scheduler,
\* every timer set fires and every attestation requested returns.
InitLive == InitWith(PoolRequests({ 0, 1 }, { 0 }, { FALSE }), BOOLEAN)

NextLive ==
    \/ Tick
    \/ SubmitOne
    \/ checkAndCloseExpiredPools
    \/ \E j \in 1..Len(jobs) : TimerFires(j)
    \/ \E j \in 1..Len(jobs) : AttestReturns(j)

SpecLive ==
    /\ InitLive
    /\ [][NextLive]_vars
    /\ WF_vars(Tick)
    /\ WF_vars(checkAndCloseExpiredPools)
    /\ WF_vars(\E j \in 1..Len(jobs) : TimerFires(j))
    /\ WF_vars(\E j \in 1..Len(jobs) : AttestReturns(j))

\* ------------------------------------------------------------------- claims
\* the pool is closed: stored status closed, or the clock at or past the
\* reveal deadline
PoolIsClosed == pool.status = "closed" \/ now >= pool.revealDeadline

\* the number of revealed rows of the preferences table that hold the token
Occurrences(token) ==
    Cardinality({ row \in Nullifiers \X (1..(MaxTokens + DECOY_MAX)) :
                    /\ row[2] <= Len(prefs[row[1]])
                    /\ prefs[row[1]][row[2]].revealed
                    /\ prefs[row[1]][row[2]].matchToken = token })

\* the tokens of the rows stored under a nullifier
TokensUnder(n) == { prefs[n][i].matchToken : i \in 1..Len(prefs[n]) }

\* C1: once the pool is closed (stored status closed, or the clock at or past
\* the reveal deadline), every submitPreferences and every revealPreferences
\* call is rejected and leaves the preferences table as it was.
C1_ClosedPoolRejects ==
    [][ (PoolIsClosed /\ resp'.op \in { "submit", "reveal" } /\ (Submit \/ Reveal))
            => (resp'.code # "ok" /\ prefs' = prefs) ]_vars

\* C1 witness: a submission was turned away with POOL_CLOSED after the reveal
\* deadline, while preferences of another nullifier are stored.
C1_Witness ==
    /\ resp = Response("submit", "POOL_CLOSED")
    /\ now >= pool.revealDeadline
    /\ \E n \in Nullifiers : prefs[n] # <<>>
    /\ \E n \in Nullifiers : prefs[n] = <<>>

\* C2: for every nullifier at most one submission is ever accepted, the rows
\* stored under the nullifier are the tokens of that one submission followed by
\* its decoys, and every other submission with the nullifier, whatever it
\* carries and whenever it runs, fails with DUPLICATE_NULLIFIER and is not
\* accepted.
C2_OnePreferenceSetPerNullifier ==
    [][ \A n \in Nullifiers :
          /\ Len(accepted'[n]) <= 1
          /\ (accepted'[n] = <<>>) <=> (prefs'[n] = <<>>)
          /\ accepted'[n] # <<>> =>
               LET first == accepted'[n][1]
               IN /\ Len(prefs'[n]) = Len(first.matchTokens) + first.decoys
                  /\ \A i \in 1..Len(first.matchTokens) :
                        prefs'[n][i].matchToken = first.matchTokens[i]
                  /\ \A i \in (Len(first.matchTokens) + 1)..Len(prefs'[n]) :
                        prefs'[n][i].matchToken \notin Tokens
          /\ (/\ accepted[n] # <<>>
               /\ resp'.op = "submit"
               /\ \E toks \in TokenLists : submitPreferences(n, toks, <<>>, 0))
                  => /\ resp' = Response("submit", "DUPLICATE_NULLIFIER")
                     /\ accepted'[n] = accepted[n] ]_vars

\* C2 witness: both nullifiers hold an accepted submission and the last
\* submission was turned away as a duplicate.
C2_Witness ==
    /\ resp = Response("submit", "DUPLICATE_NULLIFIER")
    /\ \A n \in Nullifiers : Len(accepted[n]) = 1 /\ prefs[n] # <<>>

\* C3: a submission with a nullifier that already has stored preferences fails
\* with DUPLICATE_NULLIFIER, and the stored preferences (tokens, commit hashes,
\* revealed flags, count) are exactly what they were before the call.
C3_SecondSubmissionRejected ==
    [][ \A n \in Nullifiers :
          (/\ prefs[n] # <<>>
           /\ resp'.op = "submit"
           /\ \E toks \in TokenLists : submitPreferences(n, toks, <<>>, 0))
             => (resp' = Response("submit", "DUPLICATE_NULLIFIER")
                 /\ prefs' = prefs) ]_vars

\* C3 witness: the pool is still accepting, one nullifier has submitted, and a
\* second submission was turned away as a duplicate.
C3_Witness ==
    /\ resp = Response("submit", "DUPLICATE_NULLIFIER")
    /\ ~PoolIsClosed
    /\ \E n \in Nullifiers : prefs[n] # <<>>

\* C4: the stored matchedTokens is exactly the set of tokens that occur exactly
\* 2 times among the revealed preferences of the pool.
C4_MatchedTokensExactlyTwice ==
    matchResult.exists =>
        matchResult.matchedTokens =
            { t \in UNION { TokensUnder(n) : n \in Nullifiers } : Occurrences(t) = 2 }

\* C4 witness: a result is stored for a pool that holds a token revealed
\* twice, tokens revealed once and a row that was never revealed.
C4_Witness ==
    /\ matchResult.exists
    /\ matchResult.matchedTokens # {}
    /\ \E n \in Nullifiers : \E t \in TokensUnder(n) : Occurrences(t) = 1
    /\ \E n \in Nullifiers : \E i \in 1..Len(prefs[n]) : ~prefs[n][i].revealed

\* C5: a token that is stored under only one nullifier never appears in the
\* matchedTokens of the pool.
C5_UnilateralNeverMatched ==
    matchResult.exists =>
        \A t \in matchResult.matchedTokens :
            Cardinality({ n \in Nullifiers : t \in TokensUnder(n) }) # 1

\* C6: if two participants each have an accepted submission that contains the
\* token they derive for each other, every row with the token is revealed and
\* no third nullifier carries the token, then the token is in matchedTokens
\* once detection has run.
C6_MutualSelectionMatched ==
    matchResult.exists =>
        \A a \in PrivateKeys, b \in PrivateKeys, x \in Nullifiers, y \in Nullifiers :
            LET mine == deriveMatchToken(a, getPublicKey(b))
                theirs == deriveMatchToken(b, getPublicKey(a))
                carries(n, t) ==
                    /\ accepted[n] # <<>>
                    /\ \E i \in 1..Len(accepted[n][1].matchTokens) :
                          accepted[n][1].matchTokens[i] = t
                    /\ \A i \in 1..Len(prefs[n]) :
                          prefs[n][i].matchToken = t => prefs[n][i].revealed
            IN (/\ a # b
                /\ x # y
                /\ carries(x, mine)
                /\ carries(y, theirs)
                /\ \A z \in Nullifiers \ { x, y } : mine \notin TokensUnder(z))
               => (mine = theirs /\ mine \in matchResult.matchedTokens)

\* C7: once a match result is stored, no step changes or removes it.
C7_MatchResultAppendOnce ==
    [][ matchResult.exists => matchResult' = matchResult ]_vars

\* C8: under any interleaving of detectMatches calls, a result is computed,
\* attested and stored at most once, and every call returns the same result.
C8_DetectionAtMostOnce ==
    /\ stats.inserts <= 1
    /\ Cardinality(returned) <= 1

C10_ClosedIsAbsorbing ==
    [][ getEffectiveStatus(pool, now) = "closed"
            => /\ getEffectiveStatus(pool', now') = "closed"
               /\ pool'.commitDeadline = pool.commitDeadline
               /\ pool'.revealDeadline = pool.revealDeadline ]_vars

\* C10 witness: the pool was closed by hand before its reveal deadline, a
\* result was stored, and the clock has advanced since.
C10_Witness ==
    /\ pool.status = "closed"
    /\ now < pool.revealDeadline
    /\ matchResult.exists
    /\ matchResult.detectedAt < now

\* C11: a stored preference is never removed and never changes, except that a
\* reveal flips its revealed flag from false to true and sets its token; its
\* commit hash never changes and a revealed preference never changes again.
C11_PreferenceOnlyChangedByReveal ==
    [][ \A n \in Nullifiers : \A i \in 1..Len(prefs[n]) :
          /\ i <= Len(prefs'[n])
          /\ prefs'[n][i].commitHash = prefs[n][i].commitHash
          /\ prefs[n][i].revealed => prefs'[n][i] = prefs[n][i]
          /\ prefs'[n][i] # prefs[n][i]
                => /\ resp'.op = "reveal"
                   /\ prefs[n][i].commitHash # 0
                   /\ prefs'[n][i].revealed ]_vars

\* C11 witness: a participant committed to the mutual token behind a
\* placeholder, and a reveal has set the stored token to the mutual token.
C11_Witness ==
    \E n \in Nullifiers :
        /\ accepted[n] # <<>>
        /\ accepted[n][1].matchTokens = << PlaceholderToken >>
        /\ prefs[n][1].revealed
        /\ prefs[n][1].matchToken = MutualToken

\* C12 as stated: in the reveal phase, a reveal call for a nullifier with
\* stored preferences in which a supplied token hashes to none of the commit
\* hashes stored under the nullifier fails with COMMITMENT_MISMATCH.
C12_UnmatchedTokenFails ==
    [][ \A n \in Nullifiers, toks \in SUBSET RevealTokens :
          (/\ getEffectiveStatus(pool, now) = "reveal"
           /\ prefs[n] # <<>>
           /\ \E t \in toks : \A i \in 1..Len(prefs[n]) :
                 ~verifyCommitment(t, prefs[n][i].commitHash)
           /\ resp'.op = "reveal"
           /\ revealPreferences(n, toks))
             => resp' = Response("reveal", "COMMITMENT_MISMATCH") ]_vars

\* C12 amended: the same, for a nullifier that still has an unrevealed
\* preference when the call is made.
C12_UnmatchedTokenFailsWhileUnrevealed ==
    [][ \A n \in Nullifiers, toks \in SUBSET RevealTokens :
          (/\ getEffectiveStatus(pool, now) = "reveal"
           /\ \E i \in 1..Len(prefs[n]) : ~prefs[n][i].revealed
           /\ \E t \in toks : \A i \in 1..Len(prefs[n]) :
                 ~verifyCommitment(t, prefs[n][i].commitHash)
           /\ resp'.op = "reveal"
           /\ revealPreferences(n, toks))
             => resp' = Response("reveal", "COMMITMENT_MISMATCH") ]_vars

\* C12 witness: a reveal failed with COMMITMENT_MISMATCH and left a committed
\* preference of the pool unrevealed.
C12_Witness ==
    /\ resp = Response("reveal", "COMMITMENT_MISMATCH")
    /\ \E n \in Nullifiers : \E i \in 1..Len(prefs[n]) : ~prefs[n][i].revealed

\* C13: in a reveal, a real committed token (a row written for an entry of
\* the request's matchTokens) for which the caller supplied no matching token
\* stays unrevealed.
C13_RealTokenNotAutoRevealed ==
    [][ \A n \in Nullifiers, toks \in SUBSET RevealTokens :
          (/\ getEffectiveStatus(pool, now) = "reveal"
           /\ resp'.op = "reveal"
           /\ revealPreferences(n, toks))
             => \A i \in 1..Len(prefs[n]) :
                  (/\ i <= Len(accepted[n][1].matchTokens)
                   /\ ~prefs[n][i].revealed
                   /\ \A t \in toks : ~verifyCommitment(t, prefs[n][i].commitHash))
                     => ~prefs'[n][i].revealed ]_vars

\* C14: a reveal is let through to the reveal handler only while the effective
\* status is reveal; in the commit phase and in a pool without a commit phase
\* it fails with POOL_NOT_IN_REVEAL_PHASE, in a closed pool with POOL_CLOSED,
\* and in both cases no preference changes.
C14_RevealOnlyInRevealPhase ==
    [][ (resp'.op = "reveal" /\ Reveal)
          => LET status == getEffectiveStatus(pool, now)
             IN /\ status \in { "commit", "open" }
                     => /\ resp' = Response("reveal", "POOL_NOT_IN_REVEAL_PHASE")
                        /\ prefs' = prefs
                /\ status = "closed"
                     => /\ resp' = Response("reveal", "POOL_CLOSED")
                        /\ prefs' = prefs
                /\ status = "reveal"
                     => resp'.code \notin { "POOL_NOT_IN_REVEAL_PHASE", "POOL_CLOSED" } ]_vars

\* C14 witness: a reveal was refused with POOL_NOT_IN_REVEAL_PHASE in a pool
\* without a commit phase that holds preferences and is still open.
C14_Witness ==
    /\ resp = Response("reveal", "POOL_NOT_IN_REVEAL_PHASE")
    /\ pool.commitDeadline = 0
    /\ getEffectiveStatus(pool, now) = "open"
    /\ \E n \in Nullifiers : prefs[n] # <<>>

\* C15: after every step, the rows stored under a nullifier that has an
\* accepted submission number the real tokens of that submission plus a decoy
\* count between 3 and 8, and the number of rows under a nullifier that has
\* rows is the same after the step as before it.
C15_StoredCountIsRealPlusDecoys ==
    [][ \A n \in Nullifiers :
          /\ accepted'[n] # <<>>
                => (Len(prefs'[n]) - Len(accepted'[n][1].matchTokens)) \in 3..8
          /\ prefs[n] # <<>> => Len(prefs'[n]) = Len(prefs[n]) ]_vars

\* C15 witness: a submission of one real token was accepted in the commit
\* phase and padded with 8 decoys, and a reveal has been made since.
C15_Witness ==
    \E n \in Nullifiers :
        /\ accepted[n] # <<>>
        /\ accepted[n][1].phase = "commit"
        /\ Len(accepted[n][1].matchTokens) = 1
        /\ Len(prefs[n]) = 9
        /\ prefs[n][9].revealed

\* C16: in a pool with preference limit N, a submission with more than N real
\* tokens stores nothing and fails, with PREFERENCE_LIMIT_EXCEEDED when its
\* nullifier is given and has not submitted before; a submission with at most
\* N real tokens never fails with PREFERENCE_LIMIT_EXCEEDED, and when it is
\* accepted the rows stored for it, decoys included, number more than N.
C16_PreferenceLimitCountsRealTokens ==
    [][ \A n \in 0..NumNullifiers, toks \in TokenLists :
          (/\ resp'.op = "submit"
           /\ pool.maxPreferencesPerParticipant # 0
           /\ submitPreferences(n, toks, <<>>, 0))
             => LET N == pool.maxPreferencesPerParticipant
                IN IF Len(toks) > N
                   THEN /\ prefs' = prefs
                        /\ resp'.code # "ok"
                        /\ (n # 0 /\ prefs[n] = <<>>)
                              => resp'.code = "PREFERENCE_LIMIT_EXCEEDED"
                   ELSE /\ resp'.code # "PREFERENCE_LIMIT_EXCEEDED"
                        /\ resp'.code = "ok" => Len(prefs'[n]) > N ]_vars

\* C16 witness: in a pool with limit 1 a submission was refused with
\* PREFERENCE_LIMIT_EXCEEDED and left no row under its nullifier, while another
\* nullifier's accepted submission has more rows than the limit.
C16_Witness ==
    /\ pool.maxPreferencesPerParticipant = 1
    /\ resp = Response("submit", "PREFERENCE_LIMIT_EXCEEDED")
    /\ \E n \in Nullifiers : prefs[n] = <<>>
    /\ \E n \in Nullifiers : Len(prefs[n]) > 1

\* every token held by a stored row
StoredTokens == UNION { TokensUnder(n) : n \in Nullifiers }

\* the stored tokens held by exactly two revealed rows
TokensRevealedTwice == { token \in StoredTokens : Occurrences(token) = 2 }

\* C17 as stated: for a pool with a stored result, verifyMatchIntegrity
\* reports valid if and only if the stored matchedTokens is the set of tokens
\* whose revealed count is exactly 2.
C17_ValidIffMatchedIsCountTwo ==
    [][ (resp'.op = "verify" /\ matchResult.exists /\ VerifyCall)
          => (resp'.code = "valid"
                <=> matchResult.matchedTokens = TokensRevealedTwice) ]_vars

\* C17 amended: for a pool with a stored result, verifyMatchIntegrity reports
\* valid if and only if the stored matchedTokens is the set of tokens whose
\* revealed count is exactly 2 and no token has a revealed count above 2; it
\* always returns a verdict.
C17_ValidIffMatchedIsCountTwoAndNoAnomaly ==
    [][ (resp'.op = "verify" /\ matchResult.exists /\ VerifyCall)
          => /\ resp'.code \in { "valid", "invalid" }
             /\ resp'.code = "valid"
                  <=> /\ matchResult.matchedTokens = TokensRevealedTwice
                      /\ \A token \in StoredTokens : Occurrences(token) <= 2 ]_vars

\* C17 witness: verification reported invalid for a stored result whose
\* matched list leaves out a token that two revealed rows hold, with no token
\* held by more than two.
C17_Witness ==
    /\ resp = Response("verify", "invalid")
    /\ matchResult.exists
    /\ MutualToken \in TokensRevealedTwice
    /\ MutualToken \notin matchResult.matchedTokens
    /\ \A token \in StoredTokens : Occurrences(token) <= 2

\* C18: with the server running and attestation never failing, a pool whose
\* reveal deadline has passed is eventually closed in the store with a match
\* result written.
C18_ExpiredPoolEventuallyClosedWithResult ==
    (now >= pool.revealDeadline) ~> (pool.status = "closed" /\ matchResult.exists)

\* the scheduler's close jobs in flight: waiting out the privacy delay or
\* suspended in detectMatches
SchedulerJobs == { j \in 1..Len(jobs) : jobs[j].kind = "sched" }

\* C19: at most one close job of the scheduler is in flight for the pool at
\* any time, and the pool is in the in-flight set exactly while such a job is
\* in flight: it leaves the set when the job ends, in success or in failure.
C19_OneSchedulerJobInFlight ==
    /\ Cardinality(SchedulerJobs) <= 1
    /\ poolsBeingClosed <=> SchedulerJobs # {}

\* C19 witness: the scheduler's job is waiting out its delay, the pool is
\* still listed as expired and there is room for another job, so that only
\* the in-flight set keeps a later scan from starting a second one.
C19_Witness ==
    /\ poolsBeingClosed
    /\ \E j \in SchedulerJobs : jobs[j].pc = "timer"
    /\ pool.status \in { "open", "reveal" }
    /\ pool.revealDeadline <= now
    /\ Len(jobs) < MaxJobs

\* C20: in an ephemeral pool, a step that deletes participant profiles leaves
\* a match result stored, and once a close job has returned a result (the
\* server model has no other caller of detectMatches) no participant record
\* is left.
C20_EphemeralCleanupAfterResult ==
    [][ pool.ephemeral
          => /\ ~(participants \subseteq participants') => matchResult'.exists
             /\ returned' # {} => participants' = {} ]_vars

\* C20 witness: a close job of an ephemeral pool stored a result and then
\* deleted a registered profile.
C20_Witness ==
    /\ pool.ephemeral
    /\ stats.deleted > 0
    /\ participants = {}
    /\ matchResult.exists

\* the envelope is the creator's, for this action on this pool, and fresh
Authentic(action, env) ==
    /\ env.ownerPublicKey = creatorPublicKey
    /\ env.signature = sign(SignedMessage(action, PoolId, env.timestamp), 1)
    /\ Abs(DateNow - env.timestamp) <= MaxAgeMs

\* the owner-only route of the action, called with the envelope
OwnerRoute(action, env) ==
    CASE action = "pool-close" -> PostCloseRequest(env)
      [] action = "psi-owner-setup" -> PsiOwnerSetupRequest(env)
      [] action = "psi-pending" -> PsiPendingRequest(env)
      [] action = "psi-responses" ->
            PsiResponsesRequest(env, << [ requestId |-> 1, psiResponse |-> 1 ] >>)

\* C21: an owner-only request (close, PSI owner-setup, PSI pending poll, PSI
\* responses) is let through exactly when it names the creator key and carries
\* the creator's signature over that action, that pool id and the timestamp it
\* sends, with the timestamp within five minutes of the server clock; any
\* other envelope is answered 403 and changes nothing.
C21_OwnerActionNeedsFreshCreatorSignature ==
    [][ \A action \in OwnerActions :
          resp'.op = action =>
            /\ (\E env \in Envelopes[action] :
                  ~Authentic(action, env) /\ OwnerRoute(action, env))
               => /\ resp'.code = "FORBIDDEN"
                  /\ UNCHANGED << now, pool, prefs, matchResult, participants,
                                  witness, jobs, poolsBeingClosed, stats,
                                  returned, accepted, lastDetect, serviceVars >>
            /\ (\E env \in Envelopes[action] :
                  Authentic(action, env) /\ OwnerRoute(action, env))
               => resp'.code # "FORBIDDEN" ]_vars

\* a stale envelope was refused after the setup and the close were accepted
C21_Witness ==
    /\ resp = Response("psi-responses", "FORBIDDEN")
    /\ psiSetup.exists
    /\ pool.status = "closed"
    /\ Len(jobs) > 0
    /\ now = MaxTime

\* how far along pending, processing, completed or expired a status is
StatusRank(status) ==
    CASE status = "pending" -> 0
      [] status = "processing" -> 1
      [] status \in { "completed", "expired" } -> 2

\* C22: the status of a PSI request only moves forward along pending,
\* processing, completed or expired: no step of the request, pending-poll,
\* response-batch and result-poll operations removes a request, lowers its
\* status, or changes a status that is completed or expired.
C22_PsiStatusMonotone ==
    [][ \A id \in 1..Len(psiRequests) :
          /\ id <= Len(psiRequests')
          /\ StatusRank(psiRequests'[id].status)
               >= StatusRank(psiRequests[id].status)
          /\ psiRequests[id].status \in { "completed", "expired" }
               => psiRequests'[id].status = psiRequests[id].status ]_vars

\* a result poll found a request completed while another request of the pool
\* is pending
C22_Witness ==
    /\ resp = Response("psi-response", "completed")
    /\ \E id \in 1..Len(psiRequests) : psiRequests[id].status = "completed"
    /\ \E id \in 1..Len(psiRequests) :
          psiRequests[id].status = "pending" /\ psiRequests[id].poolId = PoolId

\* the response records stored for a request id
RecordsOf(responses, id) ==
    { i \in 1..Len(responses) : responses[i].requestId = id }

\* C23: after every step a PSI request is completed exactly when one response
\* record exists for its id, and every record expires one hour after its
\* creation; a record is written at the time of its batch and no later step
\* changes or removes it.
C23_OneResponseRecordPerCompletedRequest ==
    [][ /\ \A id \in 1..(MaxRequests + 1) :
             (id \in 1..Len(psiRequests') /\ psiRequests'[id].status = "completed")
               <=> Cardinality(RecordsOf(psiResponses', id)) = 1
        /\ \A i \in 1..Len(psiResponses') :
             psiResponses'[i].expiresAt
               = psiResponses'[i].createdAt + ResponseTtlMs
        /\ \A i \in 1..Len(psiResponses) :
             i <= Len(psiResponses') /\ psiResponses'[i] = psiResponses[i]
        /\ \A i \in (Len(psiResponses) + 1)..Len(psiResponses') :
             psiResponses'[i].createdAt = DateNow ]_vars

\* a batch that processed nothing was posted after the clock had passed the
\* creation of a stored response record
C23_Witness ==
    /\ resp.op = "psi-responses"
    /\ resp.code = "ok"
    /\ resp.processed = 0
    /\ resp.errors > 1
    /\ \E i \in 1..Len(psiResponses) : psiResponses[i].createdAt < DateNow
    /\ \A id \in 1..Len(psiRequests) : psiRequests[id].status = "completed"
    /\ Len(psiRequests) = MaxRequests

\* the items of the batch that can be processed: the first item for each
\* request that exists, belongs to the pool and is pending
GoodItems(responses) ==
    { i \in 1..Len(responses) :
        /\ responses[i].requestId \in 1..Len(psiRequests)
        /\ psiRequests[responses[i].requestId].poolId = PoolId
        /\ psiRequests[responses[i].requestId].status = "pending"
        /\ \A j \in 1..(i - 1) : responses[j].requestId # responses[i].requestId }

\* the k-th smallest element of a set of numbers
RECURSIVE Nth(_, _)
Nth(S, k) ==
    LET m == CHOOSE x \in S : \A y \in S : x <= y
    IN IF k = 1 THEN m ELSE Nth(S \ { m }, k - 1)

\* C24: in an accepted response batch every item whose request is missing,
\* belongs to another pool or is no longer pending (completed before, or by an
\* earlier item of the batch) counts as one error and changes nothing, and
\* every other item is processed as if it had been sent alone: its request
\* becomes completed and one record with its payload is appended, in the order
\* of the batch; no other request and no stored record changes.
C24_BadBatchItemsAreItemErrors ==
    [][ (resp'.op = "psi-responses" /\ resp'.code = "ok") =>
          \A responses \in Batches :
            PsiResponsesRequest(OwnerEnvelope("psi-responses", DateNow),
                                responses)
            => LET good == GoodItems(responses)
                   n == Cardinality(good)
               IN /\ resp'.processed = n
                  /\ resp'.errors = Len(responses) - n
                  /\ resp'.processedIds
                       = [ k \in 1..n |-> responses[Nth(good, k)].requestId ]
                  /\ psiRequests'
                       = [ id \in 1..Len(psiRequests) |->
                             IF \E i \in good : responses[i].requestId = id
                             THEN [ psiRequests[id] EXCEPT !.status = "completed" ]
                             ELSE psiRequests[id] ]
                  /\ psiResponses'
                       = psiResponses \o
                         [ k \in 1..n |->
                             [ requestId |-> responses[Nth(good, k)].requestId,
                               poolId |-> PoolId,
                               psiResponse |-> responses[Nth(good, k)].psiResponse,
                               createdAt |-> DateNow,
                               expiresAt |-> DateNow + ResponseTtlMs ] ] ]_vars

\* a batch with a good item between two bad ones was accepted: one request of
\* the pool was completed by it while a request of another pool stayed pending
C24_Witness ==
    /\ resp.op = "psi-responses"
    /\ resp.code = "ok"
    /\ resp.processed = 1
    /\ resp.errors = MaxBatch - 1
    /\ \E id \in 1..Len(psiRequests) :
          /\ psiRequests[id].poolId = OtherPoolId
          /\ psiRequests[id].status = "pending"
    /\ \E i \in 1..Len(psiResponses) : psiResponses[i].createdAt = DateNow

\* GateSystem.evaluate has returned or thrown for gateCall
Evaluated == gateResult # NoGateResult

\* the evaluation of gateCall's context against a gate yields an eligible result
EligibleFor(gate) ==
    LET result == GateSystemEvaluate(gate, gateCall.context, gateCall.freebird)
    IN ~result.threw /\ result.eligible

\* C25: the evaluation of a composite gate yields eligible exactly when the
\* gate has sub-gates and, for the operator and, every sub-gate evaluates to
\* eligible for the same context, or, for the operator or, at least one does.
C25_CompositeIsAndOrOfChildren ==
    (Evaluated /\ gateCall.gate.type = "composite") =>
        LET children == gateCall.gate.gates
        IN (~gateResult.threw /\ gateResult.eligible)
             <=> /\ Len(children) > 0
                 /\ IF gateCall.gate.operator = "and"
                    THEN \A i \in 1..Len(children) : EligibleFor(children[i])
                    ELSE \E i \in 1..Len(children) : EligibleFor(children[i])

\* an and-composite whose last sub-gate alone fails was evaluated
C25_Witness ==
    /\ Evaluated
    /\ gateCall.gate.type = "composite"
    /\ gateCall.gate.operator = "and"
    /\ Len(gateCall.gate.gates) = MaxChildren
    /\ \A i \in 1..(MaxChildren - 1) : EligibleFor(gateCall.gate.gates[i])
    /\ ~EligibleFor(gateCall.gate.gates[MaxChildren])
    /\ gateResult.reason = "AND gate failed"

\* C26: the evaluation of a gate of type open yields eligible for every
\* context, with or without a participant key or a token proof.
C26_OpenGateAlwaysEligible ==
    (Evaluated /\ gateCall.gate.type = "open") =>
        (~gateResult.threw /\ gateResult.eligible)

\* C27: GateSystem.evaluate never throws: for every gate, context and adapter,
\* also with an unreachable verifier, it returns a result, and a result that is
\* not eligible carries a reason.
C27_EvaluateNeverThrows ==
    Evaluated =>
        /\ ~gateResult.threw
        /\ ~gateResult.eligible => gateResult.reason # ""

\* C28: within one evaluation the proof of the context is submitted to the
\* verifier at most once.
C28_ProofVerifiedOnce ==
    Evaluated => gateResult.verifyCalls <= 1

\* the join requests and token relays that carry an auth token and no sender
AnonymousMessages ==
    { msg \in JoinRequests \cup TokenRelays : isAnonymousMessage(msg) }

\* C29: an anonymous join request or token relay whose auth token fails
\* verification is dropped: the step that handles it runs neither event
\* handler, registers no participant, stores no preference, sends nothing to
\* the peer and changes nothing else.
C29_FailingTokenDroppedSilently ==
    [][ (\E msg \in AnonymousMessages :
            ~verifyAuthToken(msg.authToken) /\ handleMessage(msg)) =>
          /\ resp' = Response("federation", "DROPPED")
          /\ participants' = participants
          /\ prefs' = prefs
          /\ sent' = sent
          /\ UNCHANGED << now, pool, matchResult, witness, jobs, poolsBeingClosed,
                          stats, returned, accepted, lastDetect, serviceVars >>
      ]_vars

\* a message was dropped on an instance that registered a participant and
\* stored a relayed preference for messages with good tokens, and answered a ping
C29_Witness ==
    /\ resp = Response("federation", "DROPPED")
    /\ participants # {}
    /\ \E n \in Nullifiers : prefs[n] # <<>>
    /\ sent # <<>>

\* the promise of the join request has been resolved or rejected
Settled(id) == joins[id].state \in { "resolved", "timeout" }

\* C30: a join request is completed only by the join_response carrying its own
\* message id, and by that one whenever it arrives while the request waits; a
\* response with another id leaves it alone; it is rejected with a timeout only
\* after exactly 30 seconds of waiting; once settled it never changes again;
\* its pending entry exists exactly while it waits; and every waiting request
\* is eventually settled.
C30_JoinSettledOnceByOwnIdOrTimeout ==
    /\ [][ \A id \in 1..MaxJoins :
             /\ Settled(id) => joins'[id] = joins[id]
             /\ joins'[id].settled <= 1
             /\ (joins[id].state = "pending" /\ joins'[id].state = "resolved")
                  => /\ \E msg \in JoinResponses :
                          msg.messageId = id /\ handleMessage(msg)
                     /\ joins[id].waited <= JoinTimeoutMs
             /\ (\E msg \in JoinResponses :
                    msg.messageId # id /\ handleMessage(msg))
                  => /\ joins'[id] = joins[id]
                     /\ (id \in DOMAIN pendingResponses')
                          <=> (id \in DOMAIN pendingResponses)
             /\ (joins[id].state = "pending"
                   /\ \E msg \in JoinResponses :
                         msg.messageId = id /\ handleMessage(msg))
                  => joins'[id].state = "resolved"
             /\ (joins[id].state # "timeout" /\ joins'[id].state = "timeout")
                  => /\ joins[id].state = "pending"
                     /\ joins[id].waited = JoinTimeoutMs
             /\ (id \in DOMAIN pendingResponses') <=> joins'[id].state = "pending"
         ]_vars
    /\ \A id \in 1..MaxJoins : (joins[id].state = "pending") ~> Settled(id)

\* one join request was completed by its response after waiting, and another
\* was rejected by the timeout after 30 seconds
C30_Witness ==
    \E id, other \in 1..MaxJoins :
        /\ joins[id].state = "resolved"
        /\ joins[id].waited > 0
        /\ joins[other].state = "timeout"
        /\ joins[other].waited = JoinTimeoutMs
        /\ DOMAIN pendingResponses = {}

\* no message is in flight on socket s and both its ends are open
Settled_Socket(s) ==
    /\ sockets[s].connector = "open"
    /\ sockets[s].acceptor = "open"
    /\ sockets[s].toAcceptor = << >>
    /\ sockets[s].toConnector = << >>

\* C31: when a connection is open and every message on it was delivered, the
\* instance that connected and the instance that accepted each hold a
\* connected peer entry for the other, with a socket to write to.
C31_BothSidesHoldConnectedPeer ==
    \A s \in 1..Len(sockets) :
        (/\ Settled_Socket(s)
         /\ \A t \in 1..Len(sockets) : sockets[t].connector # "closed"
                                       /\ sockets[t].acceptor # "closed")
          => /\ peers[sockets[s].to][sockets[s].from].connected
             /\ peers[sockets[s].from][sockets[s].to].connected
             /\ peers[sockets[s].from][sockets[s].to].socket # 0

\* C32: while an instance runs, for every socket it dialled and lost - after
\* the handshake or before - a reconnect timer for the address is pending or
\* a later socket to the address exists.
C32_LostConnectionIsRetried ==
    \A s \in 1..Len(sockets) :
        (sockets[s].connector = "closed" /\ managers[sockets[s].from].running)
          => \/ \E k \in 1..Len(reconnects) :
                   /\ reconnects[k].instance = sockets[s].from
                   /\ reconnects[k].endpoint = sockets[s].to
             \/ \E t \in (s + 1)..Len(sockets) :
                   /\ sockets[t].from = sockets[s].from
                   /\ sockets[t].to = sockets[s].to

\* nothing is in flight and no instance has anything left to send: the sync
\* of every instance to all its peers generates no message
Quiescent ==
    /\ QueuesBelow(1)
    /\ \A i \in Instances :
          syncAllPeers([ sockets |-> sockets, docs |-> docs ], peers, i,
                       Instances).sockets = sockets

\* C33: once local changes have stopped and every sync message between
\* connected instances is delivered, the instances at the two ends of an open
\* connection read the same instances map and the same pools map
C33_ConnectedInstancesConverge ==
    Quiescent =>
        \A s \in 1..Len(sockets) :
            Settled_Socket(s) =>
                /\ View(docs[sockets[s].from].ops, "instances")
                     = View(docs[sockets[s].to].ops, "instances")
                /\ View(docs[sockets[s].from].ops, "pools")
                     = View(docs[sockets[s].to].ops, "pools")

\* the records ever assigned to the pool key of record base, in document ops
RecordsAt(ops, base) == { q \in ops : q.map = "pools" /\ q.key = base.key }

\* C34: a field of a pool record changed by updatePool, while every record
\* assigned to the pool (by announcePool or a received pool announcement)
\* leaves that field as it was and was assigned without knowledge of the
\* update (its operation counter is not beyond the update's), is read with
\* the updated value on every instance that holds the update, once
\* everything is delivered (for a record of the pools map the merge keeps)
C34_FieldUpdateSurvivesRecordAssignment ==
    Quiescent =>
        \A i \in Instances : \A o \in docs[i].ops :
            (/\ o.map = "field"
             /\ o.key # "updatedAt"
             /\ o \in Visible(docs[i].ops, "field", o.obj, o.key))
              => LET base == CHOOSE q \in docs[i].ops : q.id = o.obj
                     pools == View(docs[i].ops, "pools")
                 IN (/\ base.obj = RootObject(docs[i].ops, "pools")
                     /\ \A q \in RecordsAt(docs[i].ops, base) :
                           /\ q.value[o.key] = base.value[o.key]
                           /\ q.id \div 10 <= o.id \div 10)
                      => /\ base.key \in DOMAIN pools
                         /\ pools[base.key][o.key] = o.value

\* C35: a reveal that fails with COMMITMENT_MISMATCH leaves every stored
\* preference as it was before the call
C35_FailedRevealChangesNothing ==
    [][ resp' = Response("reveal", "COMMITMENT_MISMATCH") => prefs' = prefs ]_vars

\* C36: at every moment, every stored preference that has a commit hash and
\* is marked revealed holds a match token whose hash is that commit hash
C36_RevealedTokenBoundByCommitment ==
    \A n \in Nullifiers : \A i \in 1..Len(prefs[n]) :
        (prefs[n][i].commitHash # 0 /\ prefs[n][i].revealed)
          => commitToken(prefs[n][i].matchToken) = prefs[n][i].commitHash

\* C36 witness: a participant committed to a token under a placeholder, the
\* reveal wrote the token into the row, and every row of the participant is
\* revealed under its commit hash
C36_Witness ==
    \E n \in Nullifiers :
        /\ accepted[n] # <<>>
        /\ prefs[n][1].matchToken # accepted[n][1].matchTokens[1]
        /\ \A i \in 1..Len(prefs[n]) :
              prefs[n][i].revealed /\ prefs[n][i].commitHash # 0

\* C37: whenever a match result is stored, the stored status of the pool is
\* closed and the result's matchedTokens are the tokens that exactly two
\* revealed rows of the store hold now
C37_ResultAgreesWithClosedStore ==
    matchResult.exists =>
        /\ pool.status = "closed"
        /\ matchResult.matchedTokens = TokensRevealedTwice

\* C37 witness: a result with a matched token is stored for a pool its owner
\* closed before the reveal deadline, and a submission or reveal made after
\* detection was rejected
C37_Witness ==
    /\ matchResult.exists
    /\ matchResult.matchedTokens # {}
    /\ now < pool.revealDeadline
    /\ resp.op \in { "submit", "reveal" }
    /\ resp.code = "POOL_CLOSED"

\* C38: a registerParticipant call made while the effective status of the
\* pool is closed is rejected and adds no participant
C38_NoRegistrationInClosedPool ==
    [][ (getEffectiveStatus(pool, now) = "closed" /\ resp'.op = "register" /\ Register)
          => (resp'.code = "POOL_CLOSED" /\ participants' = participants) ]_vars

\* C39: in a pool that requires an invite to join, on a server that enforces
\* invites, preferences are stored only by a submit request whose invite code
\* the verifier accepted, made while the verifier is reachable
C39_StoredOnlyWithVerifiedInvite ==
    [][ (pool.requiresInviteToJoin /\ FREEBIRD_VERIFIER_URL /\ prefs' # prefs)
          => \E request \in SubmitRequests :
                /\ request.inviteCode = "valid"
                /\ PostSubmit(request, "ok", TRUE) ]_vars

\* C40: a detectMatches call whose attestation fails ends in an error, stores
\* no result and leaves the pool closed and the preferences as they were; a
\* detectMatches call made after a failure, while no result is stored, counts
\* again and asks for an attestation, and when that attestation returns the
\* result of the tokens revealed exactly twice is stored
C40_FailedAttestationCanBeRetried ==
    [][ /\ (\E j \in 1..Len(jobs) : AttestFails(j))
             => /\ resp' = Response("detect", "ATTEST_FAILED")
                /\ matchResult' = matchResult
                /\ pool.status = "closed"
                /\ pool' = pool
                /\ prefs' = prefs
        /\ (/\ stats.failures > 0
            /\ ~matchResult.exists
            /\ \E j \in 1..Len(jobs) : TimerFires(j))
             => /\ resp' = Response("detect", "pending")
                /\ Len(jobs') = Len(jobs)
                /\ jobs'[Len(jobs')].pc = "attest"
                /\ jobs'[Len(jobs')].matchedTokens = TokensRevealedTwice
        /\ (/\ stats.failures > 0
            /\ ~matchResult.exists
            /\ \E j \in 1..Len(jobs) : AttestReturns(j))
             => /\ matchResult'.exists
                /\ matchResult'.matchedTokens = TokensRevealedTwice
                /\ pool'.status = "closed"
                /\ prefs' = prefs ]_vars

\* C40 witness: an attestation failed, and a later detectMatches call stored
\* a result with a matched token
C40_Witness ==
    /\ stats.failures > 0
    /\ matchResult.exists
    /\ matchResult.matchedTokens # {}
    /\ resp = Response("detect", "ok")

====
